---------------------------- MODULE Spec2Model ----------------------------
(***************************************************************************)
(* SillyTavern-Interactive Map: the asset/document pipeline of index.js.   *)
(*                                                                         *)
(* Strings are sequences of one-character strings, so that startsWith,     *)
(* endsWith, includes, trim and toLowerCase are computed character by      *)
(* character as the JavaScript does.  A JavaScript value is a record with  *)
(* a type tag t.  A thrown Error is a result record with ok = FALSE.       *)
(***************************************************************************)
EXTENDS Integers, Sequences, FiniteSets, TLC

(***************************************************************************)
(* Bounds of the model.                                                    *)
(***************************************************************************)
\* longest path probe, counted in pieces of PathPieces
MaxPieces == 3
\* mapSettings.maxMapCache (a setting, 10 by default), kept small
maxMapCache == 2
\* showMap invocations that may be suspended at the same time
MaxCalls == 1
\* audio, img or video elements created over a run
MaxElements == 2
\* showMap invocations suspended at the same time where calls overlap
MaxOverlap == 2

(***************************************************************************)
(* String primitives (String.prototype).                                   *)
(***************************************************************************)
UpperCase == <<"A","B","C","D","E","F","G","H","I","J","K","L","M",
               "N","O","P","Q","R","S","T","U","V","W","X","Y","Z">>
LowerCase == <<"a","b","c","d","e","f","g","h","i","j","k","l","m",
               "n","o","p","q","r","s","t","u","v","w","x","y","z">>

IsUpper(c) == \E i \in 1..26 : UpperCase[i] = c
IsLetter(c) == \E i \in 1..26 : UpperCase[i] = c \/ LowerCase[i] = c

toLowerChar(c) ==
    IF IsUpper(c) THEN LowerCase[CHOOSE i \in 1..26 : UpperCase[i] = c] ELSE c

toLowerCase(s) == [i \in 1..Len(s) |-> toLowerChar(s[i])]

startsWith(s, p) == Len(s) >= Len(p) /\ SubSeq(s, 1, Len(p)) = p

endsWith(s, p) == Len(s) >= Len(p) /\ SubSeq(s, Len(s) - Len(p) + 1, Len(s)) = p

includes(s, p) == \E i \in 1..(Len(s) - Len(p) + 1) : SubSeq(s, i, i + Len(p) - 1) = p

IsSpace(c) == c \in {" ", "\t", "\n"}

RECURSIVE trimStart(_)
trimStart(s) == IF s # <<>> /\ IsSpace(Head(s)) THEN trimStart(Tail(s)) ELSE s

RECURSIVE trimEnd(_)
trimEnd(s) ==
    IF s # <<>> /\ IsSpace(s[Len(s)]) THEN trimEnd(SubSeq(s, 1, Len(s) - 1)) ELSE s

trim(s) == trimEnd(trimStart(s))

(***************************************************************************)
(* JavaScript values.                                                      *)
(***************************************************************************)
Str(s) == [t |-> "string", s |-> s]
Undefined == [t |-> "undefined"]
Null == [t |-> "null"]
\* a finite number num/den (den a power of ten), NaN or Infinity
Num(n, d) == [t |-> "number", k |-> "finite", num |-> n, den |-> d]
NaN == [t |-> "number", k |-> "nan", num |-> 0, den |-> 1]
Infinity == [t |-> "number", k |-> "inf", num |-> 1, den |-> 1]

typeof(v) == IF v.t = "null" THEN "object" ELSE v.t

\* ToBoolean
truthy(v) ==
    CASE v.t = "string" -> v.s # <<>>
      [] v.t = "number" -> v.k = "inf" \/ (v.k = "finite" /\ v.num # 0)
      [] v.t = "boolean" -> v.b
      [] v.t \in {"undefined", "null"} -> FALSE
      [] OTHER -> TRUE

\* property access o.f : undefined unless o is an object that has the field
Get(o, f) == IF o.t = "object" /\ f \in DOMAIN o THEN o[f] ELSE Undefined

Obj(fields) == [t |-> "object"] @@ fields
Arr(items) == [t |-> "array", items |-> items]

DigitChars == <<"0","1","2","3","4","5","6","7","8","9">>
IsDigit(c) == \E i \in 1..10 : DigitChars[i] = c
DigitVal(c) == (CHOOSE i \in 1..10 : DigitChars[i] = c) - 1

RECURSIVE DigitsValue(_)
DigitsValue(s) ==
    IF s = <<>> THEN 0
    ELSE DigitsValue(SubSeq(s, 1, Len(s) - 1)) * 10 + DigitVal(s[Len(s)])

\* number of consecutive decimal digits of s from position i
RECURSIVE CountDigits(_, _)
CountDigits(s, i) ==
    IF i <= Len(s) /\ IsDigit(s[i]) THEN 1 + CountDigits(s, i + 1) ELSE 0

RECURSIVE Pow10(_)
Pow10(n) == IF n <= 0 THEN 1 ELSE 10 * Pow10(n - 1)

\* the finite number n/d in lowest power-of-ten terms
RECURSIVE Finite(_, _)
Finite(n, d) ==
    IF d > 1 /\ n % 10 = 0 THEN Finite(n \div 10, d \div 10) ELSE Num(n, d)

\* StringToNumber: StrWhiteSpace? StrNumericLiteral? StrWhiteSpace?, decimal
\* literals with optional sign, fraction and exponent, and Infinity.  The
\* literal is scanned left to right; each stage receives what the stages
\* before it have found.

\* the value of a scanned literal: mantissa digits mant, n2 of them after the
\* point, exponent ex
LiteralValue(wellFormed, mant, n2, ex, eNeg) ==
    IF ~wellFormed THEN NaN
    ELSE IF eNeg THEN Finite(mant, Pow10(n2 + ex))
    ELSE Finite(mant * Pow10(ex), Pow10(n2))

\* the exponent's n3 digits start at eStart
ScanExponentDigits(body, digits, mant, n2, mEnd, hasExp, eNeg, eStart, n3) ==
    LiteralValue(digits >= 1 /\ (hasExp => n3 >= 1)
                    /\ (IF hasExp THEN eStart + n3 - 1 ELSE mEnd) = Len(body),
                 mant, n2,
                 IF hasExp THEN DigitsValue(SubSeq(body, eStart, eStart + n3 - 1)) ELSE 0,
                 eNeg)

ScanExponentSign(body, digits, mant, n2, mEnd, hasExp, eSigned, eStart) ==
    ScanExponentDigits(body, digits, mant, n2, mEnd, hasExp,
                       eSigned /\ body[mEnd + 2] = "-", eStart,
                       IF hasExp THEN CountDigits(body, eStart) ELSE 0)

\* the mantissa ends at mEnd
ScanExponent(body, digits, mant, n2, mEnd, hasExp) ==
    LET eSigned == hasExp /\ Len(body) > mEnd + 1 /\ body[mEnd + 2] \in {"+", "-"}
    IN  ScanExponentSign(body, digits, mant, n2, mEnd, hasExp, eSigned,
                         mEnd + (IF eSigned THEN 3 ELSE 2))

\* n1 integer digits, then n2 fraction digits if there is a point
ScanFraction(body, n1, hasDot, n2) ==
    ScanExponent(body, n1 + n2,
                 DigitsValue(SubSeq(body, 1, n1) \o SubSeq(body, n1 + 2, n1 + 1 + n2)),
                 n2, n1 + (IF hasDot THEN 1 + n2 ELSE 0),
                 Len(body) > n1 + (IF hasDot THEN 1 + n2 ELSE 0)
                    /\ body[n1 + (IF hasDot THEN 1 + n2 ELSE 0) + 1] \in {"e", "E"})

ScanPoint(body, n1, hasDot) ==
    ScanFraction(body, n1, hasDot, IF hasDot THEN CountDigits(body, n1 + 2) ELSE 0)

ScanInteger(body, n1) == ScanPoint(body, n1, Len(body) > n1 /\ body[n1 + 1] = ".")

\* the literal without its sign
UnsignedLiteral(body) ==
    IF body = <<"I","n","f","i","n","i","t","y">> THEN Infinity
    ELSE ScanInteger(body, CountDigits(body, 1))

Negated(mag) == IF mag.k = "finite" THEN Num(0 - mag.num, mag.den) ELSE mag

TrimmedToNumber(s) ==
    IF s = <<>> THEN Num(0, 1)
    ELSE IF s[1] = "-" THEN Negated(UnsignedLiteral(Tail(s)))
    ELSE IF s[1] = "+" THEN UnsignedLiteral(Tail(s))
    ELSE UnsignedLiteral(s)

StringToNumber(s0) == TrimmedToNumber(trim(s0))

\* Number(v)
Number(v) ==
    CASE v.t = "number" -> v
      [] v.t = "string" -> StringToNumber(v.s)
      [] v.t = "null" -> Num(0, 1)
      [] v.t = "boolean" -> IF v.b THEN Num(1, 1) ELSE Num(0, 1)
      [] v.t = "array" ->
            IF v.items = <<>> THEN Num(0, 1)
            ELSE IF Len(v.items) = 1 /\ v.items[1].t = "string"
                 THEN StringToNumber(v.items[1].s)
            ELSE IF Len(v.items) = 1 /\ v.items[1].t = "number" THEN v.items[1]
            ELSE NaN
      [] OTHER -> NaN

isFinite(n) == n.k = "finite"
isPositive(n) == n.k = "inf" \/ (n.k = "finite" /\ n.num > 0)

(***************************************************************************)
(* Configuration (index.js 21-42).                                         *)
(***************************************************************************)
extensionName ==
    <<"S","i","l","l","y","T","a","v","e","r","n","-",
      "I","n","t","e","r","a","c","t","i","v","e"," ","M","a","p">>

extensionFolderPath ==
    <<"s","c","r","i","p","t","s","/","e","x","t","e","n","s","i","o","n","s","/",
      "t","h","i","r","d","-","p","a","r","t","y","/">> \o extensionName

(***************************************************************************)
(* Map document validation.  An error message is a record: its text        *)
(* template and, for a shape, the zero-based index the message carries.    *)
(***************************************************************************)
Err(msg) == [msg |-> msg, index |-> -1]
ShapeErr(msg, i) == [msg |-> msg, index |-> i]

IsHexDigit(c) == IsDigit(c) \/ c \in {"a","b","c","d","e","f","A","B","C","D","E","F"}

\* the string RegExp.prototype.test sees: strings as they are, a one-string
\* array as its element; every other value prints without a leading '#'
TestString(v) ==
    CASE v.t = "string" -> v.s
      [] v.t = "array" /\ Len(v.items) = 1 /\ v.items[1].t = "string" -> v.items[1].s
      [] OTHER -> <<>>

\* /^#([A-Fa-f0-9]{6})$/ : the three-digit alternative left out
isValidColor_sixOnly(color) ==
    LET c == TestString(color) IN
    /\ Len(c) = 7
    /\ c[1] = "#"
    /\ \A i \in 2..Len(c) : IsHexDigit(c[i])

\* /^#([A-Fa-f0-9]{6}|[A-Fa-f0-9]{3})$/
isValidColor(color) ==
    LET c == TestString(color) IN
    /\ Len(c) \in {4, 7}
    /\ c[1] = "#"
    /\ \A i \in 2..Len(c) : IsHexDigit(c[i])

validateShape(shape, index) ==
    IF ~truthy(shape) \/ typeof(shape) # "object"
    THEN << ShapeErr("Shape[i]: must be an object", index) >>
    ELSE
      LET id == Get(shape, "id")
          path == Get(shape, "path")
          color == Get(shape, "color")
          script == Get(shape, "script")
      IN  (IF ~truthy(id) \/ ~truthy(path) \/ ~truthy(color) \/ ~truthy(script)
           THEN << ShapeErr("Shape[i]: missing required fields (id, path, color, script)", index) >>
           ELSE <<>>)
       \o (IF typeof(script) # "string"
           THEN << ShapeErr("Shape[i].script: must be a string", index) >> ELSE <<>>)
       \o (IF typeof(path) # "string"
           THEN << ShapeErr("Shape[i].path: must be a string", index) >> ELSE <<>>)
       \o (IF ~isValidColor(color)
           THEN << ShapeErr("Shape[i].color: invalid color", index) >> ELSE <<>>)

\* map.shapes.forEach((shape, i) => validateShape(shape, i, errors))
RECURSIVE validateShapes(_, _)
validateShapes(items, n) ==
    IF n = 0 THEN <<>>
    ELSE validateShapes(items, n - 1) \o validateShape(items[n], n - 1)

\* return { valid: errors.length === 0, errors }
Validation(errors) == [valid |-> errors = <<>>, errors |-> errors]

\* the checks of validateMapData on an object: bg is its backgroundImage,
\* width and height are Number(bg?.width) and Number(bg?.height)
validateFields(bg, shapes, width, height) ==
    Validation(
         (IF ~truthy(bg) \/ typeof(Get(bg, "file")) # "string"
          THEN << Err("backgroundImage.file: required and must be a string") >>
          ELSE <<>>)
      \o (IF ~isFinite(width) \/ ~isFinite(height)
             \/ ~isPositive(width) \/ ~isPositive(height)
          THEN << Err("backgroundImage.width/height: must be positive numbers") >>
          ELSE <<>>)
      \o (IF shapes.t # "array" \/ shapes.items = <<>>
          THEN << Err("shapes: must be non-empty array") >>
          ELSE validateShapes(shapes.items, Len(shapes.items))))

validateBackground(bg, shapes) ==
    validateFields(bg, shapes, Number(Get(bg, "width")), Number(Get(bg, "height")))

validateMapData(data) ==
    IF ~truthy(data) \/ typeof(data) # "object"
    THEN Validation(<< Err("Map data must be an object") >>)
    ELSE validateBackground(Get(data, "backgroundImage"), Get(data, "shapes"))

(***************************************************************************)
(* Path traversal protection.                                              *)
(***************************************************************************)
Ok(v) == [ok |-> TRUE, value |-> v]
Throw(e) == [ok |-> FALSE, error |-> e]

validateAssetPath_noBackslash(filePath) ==
    IF ~truthy(filePath) \/ typeof(filePath) # "string"
    THEN Throw("Path must be a string")
    ELSE IF \/ includes(filePath.s, <<".", ".">>)
            \/ startsWith(filePath.s, <<"/">>)
            \/ includes(filePath.s, <<"\\", "\\">>)
    THEN Throw("Invalid file path")
    ELSE IF Len(filePath.s) >= 2 /\ IsLetter(filePath.s[1]) /\ filePath.s[2] = ":"
    THEN Throw("Absolute paths forbidden")
    ELSE Ok(TRUE)

validateAssetPath(filePath) ==
    IF ~truthy(filePath) \/ typeof(filePath) # "string"
    THEN Throw("Path must be a string")
    ELSE IF \/ includes(filePath.s, <<".", ".">>)
            \/ startsWith(filePath.s, <<"/">>)
            \/ startsWith(filePath.s, <<"\\">>)
            \/ includes(filePath.s, <<"\\", "\\">>)
    THEN Throw("Invalid file path")
    ELSE IF Len(filePath.s) >= 2 /\ IsLetter(filePath.s[1]) /\ filePath.s[2] = ":"
    THEN Throw("Absolute paths forbidden")
    ELSE Ok(TRUE)

resolveAssetPath_unchecked(filePath) ==
    IF startsWith(filePath.s, <<"s","c","r","i","p","t","s","/">>)
    THEN Ok(filePath.s)
    ELSE Ok(extensionFolderPath \o <<"/">> \o filePath.s)

resolveAssetPath(filePath) ==
    LET v == validateAssetPath(filePath) IN
    IF ~v.ok THEN v
    ELSE IF startsWith(filePath.s, <<"s","c","r","i","p","t","s","/">>)
    THEN Ok(filePath.s)
    ELSE Ok(extensionFolderPath \o <<"/">> \o filePath.s)

(***************************************************************************)
(* Program state.                                                          *)
(*                                                                         *)
(* document is the page: whether the map window (#map, with its            *)
(* #svg-container) exists, the svg's content, every audio, img and video   *)
(* element the extension created (an element is named by its position in   *)
(* its sequence; 0 is null), the two Close buttons and the window's resize *)
(* listeners.  toastr is the last notification shown to the user.          *)
(***************************************************************************)
VARIABLES
    mapCache,               \* Map: sequence of [key, value] in insertion order
    extensionState,         \* currentLoadedMap, availableMaps, isMapLoaded, ...
    mapAudioElement,
    mapImageElement,
    mapImageCloseButton,
    mapVideoElement,
    mapVideoCloseButton,
    document,
    toastr,
    calls,                  \* showMap invocations suspended in loadMapData
    indexCall,              \* initializeMapSelection suspended in the index fetch
    fillRun,                \* history: keys inserted since the cache was empty
    probe                   \* input and result of a pure function under test

world == <<mapCache, extensionState, mapAudioElement, mapImageElement,
           mapImageCloseButton, mapVideoElement, mapVideoCloseButton,
           document, toastr>>

vars == <<mapCache, extensionState, mapAudioElement, mapImageElement,
          mapImageCloseButton, mapVideoElement, mapVideoCloseButton,
          document, toastr, calls, indexCall, fillRun, probe>>

\* the program state as one value, for the functions that transform it
Cur == [mapCache |-> mapCache, extensionState |-> extensionState,
        mapAudioElement |-> mapAudioElement,
        mapImageElement |-> mapImageElement,
        mapImageCloseButton |-> mapImageCloseButton,
        mapVideoElement |-> mapVideoElement,
        mapVideoCloseButton |-> mapVideoCloseButton,
        document |-> document, toastr |-> toastr]

Becomes(W0) ==
    \E W \in {W0} :
    /\ mapCache' = W.mapCache
    /\ extensionState' = W.extensionState
    /\ mapAudioElement' = W.mapAudioElement
    /\ mapImageElement' = W.mapImageElement
    /\ mapImageCloseButton' = W.mapImageCloseButton
    /\ mapVideoElement' = W.mapVideoElement
    /\ mapVideoCloseButton' = W.mapVideoCloseButton
    /\ document' = W.document
    /\ toastr' = W.toastr

NoElement == 0
NoSrc == <<>>

\* toastr holds the last notification, unless the specification leaves the
\* notifications unobserved
NoToast == [level |-> "none", msg |-> ""]
Unobserved == [level |-> "unobserved", msg |-> ""]

Toast(W, level, msg) ==
    IF W.toastr = Unobserved THEN W
    ELSE [W EXCEPT !.toastr = [level |-> level, msg |-> msg]]

\* document.body.contains(el) / container.contains(el)
audioInBody(W, el) == el # NoElement /\ W.document.audios[el].inBody
imageAttached(W, el) == el # NoElement /\ W.document.images[el].attached
videoAttached(W, el) == el # NoElement /\ W.document.videos[el].attached

\* the active elements of each kind: an audio that plays, an image or a
\* video that is displayed in the window with a source
ActiveAudios(W) ==
    {el \in 1..Len(W.document.audios) :
        W.document.audios[el].inBody /\ W.document.audios[el].playing}
ActiveImages(W) ==
    {el \in 1..Len(W.document.images) :
        /\ W.document.images[el].attached
        /\ W.document.images[el].display = "block"
        /\ W.document.images[el].src # NoSrc}
ActiveVideos(W) ==
    {el \in 1..Len(W.document.videos) :
        /\ W.document.videos[el].attached
        /\ W.document.videos[el].display = "block"
        /\ W.document.videos[el].src # NoSrc}

\* the active elements of a kind with their sources
Active(W, kind) ==
    CASE kind = "audio" ->
            {[el |-> el, src |-> W.document.audios[el].src] : el \in ActiveAudios(W)}
      [] kind = "image" ->
            {[el |-> el, src |-> W.document.images[el].src] : el \in ActiveImages(W)}
      [] kind = "video" ->
            {[el |-> el, src |-> W.document.videos[el].src] : el \in ActiveVideos(W)}

\* history: when the probe is a command log, it holds the media command the
\* last step ran (play or stop, its kind and input), whether the window was
\* open and what was active of that kind when it ran; a step that runs no
\* media command empties the log
\* returned is what the slash-command handler that finished in the last step
\* returned, Undefined when none finished
NoCommand == [fn |-> "command", op |-> "none", kind |-> "none", input |-> Undefined,
              allowed |-> FALSE, window |-> FALSE, before |-> {},
              returned |-> Undefined]

Logged(entry) == probe' = IF probe.fn = "command" THEN entry ELSE probe

Command(op, kind, input, allowed) ==
    Logged([fn |-> "command", op |-> op, kind |-> kind, input |-> input,
            allowed |-> allowed, window |-> document.mapWindow,
            before |-> Active(Cur, kind), returned |-> Undefined])

\* the log of a step in which a slash-command handler returned
Handled(op, kind, input, allowed, returned) ==
    Logged([fn |-> "command", op |-> op, kind |-> kind, input |-> input,
            allowed |-> allowed, window |-> document.mapWindow,
            before |-> Active(Cur, kind), returned |-> returned])

\* the /showmap handler awaits showMap and then returns '': the log of a
\* step of showMap once the call has ended
Settled(entry, call) ==
    IF call.pc = "idle" THEN [entry EXCEPT !.returned = Str(<<>>)] ELSE entry

(***************************************************************************)
(* Map audio.                                                              *)
(***************************************************************************)
NewAudio == [inBody |-> TRUE, src |-> NoSrc, playing |-> FALSE, currentTime |-> 0]

getOrCreateMapAudioElement_always(W) ==
    LET el == Len(W.document.audios) + 1 IN
    [W |-> [W EXCEPT !.document.audios = Append(@, NewAudio),
                     !.mapAudioElement = el],
     el |-> el]

getOrCreateMapAudioElement(W) ==
    IF audioInBody(W, W.mapAudioElement)
    THEN [W |-> W, el |-> W.mapAudioElement]
    ELSE LET el == Len(W.document.audios) + 1 IN
         [W |-> [W EXCEPT !.document.audios = Append(@, NewAudio),
                          !.mapAudioElement = el],
          el |-> el]

stopCurrentMapAudio_noPause(W) == W

stopCurrentMapAudio(W) ==
    IF ~audioInBody(W, W.mapAudioElement) THEN W
    ELSE [W EXCEPT !.document.audios[W.mapAudioElement].playing = FALSE,
                   !.document.audios[W.mapAudioElement].currentTime = 0]

\* playMapSound 378-396: trim, sounds/ prefix, default .mp3
soundPath(soundFileName) ==
    LET trimmed == trim(soundFileName)
        rel == IF startsWith(toLowerCase(trimmed), <<"s","o","u","n","d","s","/">>)
               THEN trimmed ELSE <<"s","o","u","n","d","s","/">> \o trimmed
        lower == toLowerCase(rel)
        hasExt == \/ endsWith(lower, <<".","m","p","3">>)
                  \/ endsWith(lower, <<".","o","g","g">>)
                  \/ endsWith(lower, <<".","w","a","v">>)
                  \/ endsWith(lower, <<".","m","4","a">>)
                  \/ endsWith(lower, <<".","w","e","b","m">>)
    IN  IF hasExt THEN rel ELSE rel \o <<".","m","p","3">>

\* allowed: whether the browser lets audio.play() start playback
playMapSound(W, soundFileName, allowed) ==
    IF ~truthy(soundFileName) THEN W
    ELSE IF soundFileName.t # "string"
    THEN Toast(W, "error", "Audio error")
    ELSE
      LET relativePath == soundPath(soundFileName.s) IN
      IF ~validateAssetPath(Str(relativePath)).ok
      THEN Toast(W, "error", "Audio error")
      ELSE
        LET audioSrc == extensionFolderPath \o <<"/">> \o relativePath
            g == getOrCreateMapAudioElement(W)
            W1 == stopCurrentMapAudio(g.W)
            W2 == [W1 EXCEPT !.document.audios[g.el].src = audioSrc,
                             !.document.audios[g.el].currentTime = 0,
                             !.document.audios[g.el].playing = allowed]
        IN  IF allowed THEN W2
            ELSE Toast(W2, "error", "Could not start map sound playback")

(***************************************************************************)
(* Image and video overlays in the map window.  sizePct is the size of the *)
(* element as a percentage of the svg it is resized to.                    *)
(***************************************************************************)
NoButton == [created |-> FALSE, attached |-> FALSE, display |-> ""]

\* opts.sizePct && Number.isFinite(+opts.sizePct): Math.max(10, Math.min(100, pct))
clampSizePct(pct) ==
    LET m == IF pct < 100 THEN pct ELSE 100 IN IF m > 10 THEN m ELSE 10

applySizePct(el, opts) ==
    IF opts.sizePct # 0 THEN [el EXCEPT !.sizePct = clampSizePct(opts.sizePct)] ELSE el

\* resizeVideoToSvg: the element takes the size of the svg (or of the container)
resizeVideoToSvg(el) == [el EXCEPT !.sizePct = 100]

NewImage == [attached |-> TRUE, src |-> NoSrc, display |-> "none", sizePct |-> 100]

getOrCreateMapImageElement_always(W) ==
    IF ~W.document.mapWindow THEN [W |-> W, el |-> NoElement]
    ELSE
      LET el == Len(W.document.images) + 1
          W1 == [W EXCEPT !.document.images = Append(@, NewImage),
                          !.mapImageElement = el,
                          !.mapImageCloseButton = 1]
      IN  [W |-> [W1 EXCEPT !.document.imageBtn =
                      [created |-> TRUE, attached |-> TRUE, display |-> "none"]],
           el |-> el]

getOrCreateMapImageElement(W) ==
    IF ~W.document.mapWindow THEN [W |-> W, el |-> NoElement]
    ELSE IF imageAttached(W, W.mapImageElement)
    THEN [W |-> IF W.mapImageCloseButton # NoElement /\ ~W.document.imageBtn.attached
                THEN [W EXCEPT !.document.imageBtn.attached = TRUE]
                ELSE W,
          el |-> W.mapImageElement]
    ELSE
      LET el == Len(W.document.images) + 1
          W1 == [W EXCEPT !.document.images = Append(@, NewImage),
                          !.mapImageElement = el,
                          !.mapImageCloseButton = 1]
      IN  [W |-> [W1 EXCEPT !.document.imageBtn =
                      [created |-> TRUE, attached |-> TRUE, display |-> "none"]],
           el |-> el]

\* the same function hiding every close control of the window
stopCurrentMapImage_allButtons(W) ==
    LET W1 == IF imageAttached(W, W.mapImageElement)
              THEN [W EXCEPT !.document.images[W.mapImageElement].src = NoSrc,
                             !.document.images[W.mapImageElement].display = "none"]
              ELSE W
    IN  IF W1.mapImageCloseButton # NoElement /\ W1.document.imageBtn.attached
        THEN [W1 EXCEPT !.document.imageBtn.display = "none",
                        !.document.videoBtn.display = "none"]
        ELSE W1

stopCurrentMapImage(W) ==
    LET W1 == IF imageAttached(W, W.mapImageElement)
              THEN [W EXCEPT !.document.images[W.mapImageElement].src = NoSrc,
                             !.document.images[W.mapImageElement].display = "none"]
              ELSE W
    IN  IF W1.mapImageCloseButton # NoElement /\ W1.document.imageBtn.attached
        THEN [W1 EXCEPT !.document.imageBtn.display = "none"]
        ELSE W1

\* showMapImage 539-555: trim, images/ prefix, default .png
imagePath(imageName) ==
    LET trimmed == trim(imageName)
        rel == IF startsWith(toLowerCase(trimmed), <<"i","m","a","g","e","s","/">>)
               THEN trimmed ELSE <<"i","m","a","g","e","s","/">> \o trimmed
        lower == toLowerCase(rel)
        hasExt == \/ endsWith(lower, <<".","p","n","g">>)
                  \/ endsWith(lower, <<".","j","p","g">>)
                  \/ endsWith(lower, <<".","j","p","e","g">>)
                  \/ endsWith(lower, <<".","w","e","b","p">>)
                  \/ endsWith(lower, <<".","g","i","f">>)
    IN  IF hasExt THEN rel ELSE rel \o <<".","p","n","g">>

\* the same function hiding the current image before it looks at the name
showMapImage_stopsFirst(W, imageName, opts) ==
    LET S == stopCurrentMapImage(W) IN
    IF ~truthy(imageName) THEN S
    ELSE IF imageName.t # "string"
    THEN Toast(S, "error", "Image error")
    ELSE
      LET relativePath == imagePath(imageName.s) IN
      IF ~validateAssetPath(Str(relativePath)).ok
      THEN Toast(S, "error", "Image error")
      ELSE
        LET imgSrc == extensionFolderPath \o <<"/">> \o relativePath
            g == getOrCreateMapImageElement(S)
        IN  IF g.el = NoElement
            THEN Toast(S, "warning", "Map window not open")
            ELSE
              LET W1 == stopCurrentMapImage(g.W)
                  img == applySizePct(resizeVideoToSvg(
                            [W1.document.images[g.el] EXCEPT
                                !.display = "block", !.src = imgSrc]), opts)
                  W2 == [W1 EXCEPT !.document.images[g.el] = img]
              IN  IF W2.mapImageCloseButton # NoElement /\ W2.document.imageBtn.attached
                  THEN [W2 EXCEPT !.document.imageBtn.display = "block"]
                  ELSE W2

showMapImage(W, imageName, opts) ==
    IF ~truthy(imageName) THEN W
    ELSE IF imageName.t # "string"
    THEN Toast(W, "error", "Image error")
    ELSE
      LET relativePath == imagePath(imageName.s) IN
      IF ~validateAssetPath(Str(relativePath)).ok
      THEN Toast(W, "error", "Image error")
      ELSE
        LET imgSrc == extensionFolderPath \o <<"/">> \o relativePath
            g == getOrCreateMapImageElement(W)
        IN  IF g.el = NoElement
            THEN Toast(W, "warning", "Map window not open")
            ELSE
              LET W1 == stopCurrentMapImage(g.W)
                  img == applySizePct(resizeVideoToSvg(
                            [W1.document.images[g.el] EXCEPT
                                !.display = "block", !.src = imgSrc]), opts)
                  W2 == [W1 EXCEPT !.document.images[g.el] = img]
              IN  IF W2.mapImageCloseButton # NoElement /\ W2.document.imageBtn.attached
                  THEN [W2 EXCEPT !.document.imageBtn.display = "block"]
                  ELSE W2

NewVideo == [attached |-> TRUE, src |-> NoSrc, playing |-> FALSE, display |-> "",
             muted |-> FALSE, loop |-> FALSE, autoplay |-> FALSE, sizePct |-> 100]

getOrCreateMapVideoElement(W) ==
    IF ~W.document.mapWindow THEN [W |-> W, el |-> NoElement]
    ELSE IF videoAttached(W, W.mapVideoElement)
    THEN LET W1 == [W EXCEPT !.document.videos[W.mapVideoElement] = resizeVideoToSvg(@)]
         IN  [W |-> IF W1.mapVideoCloseButton # NoElement /\ ~W1.document.videoBtn.attached
                    THEN [W1 EXCEPT !.document.videoBtn.attached = TRUE]
                    ELSE W1,
              el |-> W.mapVideoElement]
    ELSE
      LET el == Len(W.document.videos) + 1
          W1 == [W EXCEPT !.document.videos = Append(@, NewVideo),
                          !.mapVideoElement = el]
          W2 == IF W1.mapVideoCloseButton = NoElement
                THEN [W1 EXCEPT !.mapVideoCloseButton = 1,
                                !.document.videoBtn.created = TRUE]
                ELSE W1
      IN  [W |-> [W2 EXCEPT !.document.videoBtn.attached = TRUE], el |-> el]

stopCurrentMapVideo_keepSrc(W) ==
    LET W1 == IF W.mapVideoElement = NoElement THEN W
              ELSE IF ~videoAttached(W, W.mapVideoElement)
              THEN [W EXCEPT !.mapVideoElement = NoElement]
              ELSE [W EXCEPT !.document.videos[W.mapVideoElement].playing = FALSE,
                             !.document.videos[W.mapVideoElement].display = "none"]
    IN  IF W1.mapVideoCloseButton # NoElement /\ W1.document.videoBtn.attached
        THEN [W1 EXCEPT !.document.videoBtn.display = "none"]
        ELSE W1

stopCurrentMapVideo(W) ==
    LET W1 == IF W.mapVideoElement = NoElement THEN W
              ELSE IF ~videoAttached(W, W.mapVideoElement)
              THEN [W EXCEPT !.mapVideoElement = NoElement]
              ELSE [W EXCEPT !.document.videos[W.mapVideoElement].playing = FALSE,
                             !.document.videos[W.mapVideoElement].src = NoSrc,
                             !.document.videos[W.mapVideoElement].display = "none"]
    IN  IF W1.mapVideoCloseButton # NoElement /\ W1.document.videoBtn.attached
        THEN [W1 EXCEPT !.document.videoBtn.display = "none"]
        ELSE W1

\* playMapVideo 736-750: trim, movies/ prefix, default .mp4
videoPath(movieName) ==
    LET trimmed == trim(movieName)
        rel == IF startsWith(toLowerCase(trimmed), <<"m","o","v","i","e","s","/">>)
               THEN trimmed ELSE <<"m","o","v","i","e","s","/">> \o trimmed
        lower == toLowerCase(rel)
        hasExt == \/ endsWith(lower, <<".","m","p","4">>)
                  \/ endsWith(lower, <<".","w","e","b","m">>)
                  \/ endsWith(lower, <<".","o","g","g">>)
                  \/ endsWith(lower, <<".","m","4","v">>)
    IN  IF hasExt THEN rel ELSE rel \o <<".","m","p","4">>

\* allowed: whether the browser lets video.play() start playback
\* the same function installing its resize listener on every call
playMapVideo_alwaysListens(W, movieName, opts, allowed) ==
    IF ~truthy(movieName) THEN W
    ELSE IF movieName.t # "string"
    THEN Toast(W, "error", "Video error")
    ELSE
      LET relativePath == videoPath(movieName.s) IN
      IF ~validateAssetPath(Str(relativePath)).ok
      THEN Toast(W, "error", "Video error")
      ELSE
        LET videoSrc == extensionFolderPath \o <<"/">> \o relativePath
            g == getOrCreateMapVideoElement(W)
        IN  IF g.el = NoElement
            THEN Toast(W, "warning", "Map window not open")
            ELSE
              LET old == g.W.document.videos[g.el]
                  cleared == IF old.src # NoSrc
                             THEN [old EXCEPT !.playing = FALSE, !.src = NoSrc]
                             ELSE old
                  autoplay == opts.autoplay
                  video == applySizePct(resizeVideoToSvg(
                              [cleared EXCEPT !.display = "block",
                                              !.src = videoSrc,
                                              !.muted = opts.muted,
                                              !.loop = opts.loop,
                                              !.autoplay = autoplay,
                                              !.playing = autoplay /\ allowed]), opts)
                  W1 == [g.W EXCEPT !.document.videos[g.el] = video]
                  W2 == IF W1.mapVideoCloseButton # NoElement
                        THEN [W1 EXCEPT !.document.videoBtn.display = "block"]
                        ELSE W1
              IN  [W2 EXCEPT !.document._mapVideoResizeListener = TRUE,
                             !.document.resizeListeners = @ + 1]
playMapVideo(W, movieName, opts, allowed) ==
    IF ~truthy(movieName) THEN W
    ELSE IF movieName.t # "string"
    THEN Toast(W, "error", "Video error")
    ELSE
      LET relativePath == videoPath(movieName.s) IN
      IF ~validateAssetPath(Str(relativePath)).ok
      THEN Toast(W, "error", "Video error")
      ELSE
        LET videoSrc == extensionFolderPath \o <<"/">> \o relativePath
            g == getOrCreateMapVideoElement(W)
        IN  IF g.el = NoElement
            THEN Toast(W, "warning", "Map window not open")
            ELSE
              LET old == g.W.document.videos[g.el]
                  cleared == IF old.src # NoSrc
                             THEN [old EXCEPT !.playing = FALSE, !.src = NoSrc]
                             ELSE old
                  autoplay == opts.autoplay
                  video == applySizePct(resizeVideoToSvg(
                              [cleared EXCEPT !.display = "block",
                                              !.src = videoSrc,
                                              !.muted = opts.muted,
                                              !.loop = opts.loop,
                                              !.autoplay = autoplay,
                                              !.playing = autoplay /\ allowed]), opts)
                  W1 == [g.W EXCEPT !.document.videos[g.el] = video]
                  W2 == IF W1.mapVideoCloseButton # NoElement
                        THEN [W1 EXCEPT !.document.videoBtn.display = "block"]
                        ELSE W1
              IN  IF ~W2.document._mapVideoResizeListener
                  THEN [W2 EXCEPT !.document._mapVideoResizeListener = TRUE,
                                  !.document.resizeListeners = @ + 1]
                  ELSE W2

(***************************************************************************)
(* The interactive surface.                                                *)
(***************************************************************************)
\* leading significant digit of a positive integer
RECURSIVE LeadingDigit(_)
LeadingDigit(n) == IF n < 10 THEN n ELSE LeadingDigit(n \div 10)

\* parseInt(string): optional sign, then the longest prefix of decimal digits
parseIntString(s0) ==
    LET s == trimStart(s0)
        signed == s # <<>> /\ s[1] \in {"+", "-"}
        neg == s # <<>> /\ s[1] = "-"
        body == IF signed THEN Tail(s) ELSE s
        n == CountDigits(body, 1)
        mag == DigitsValue(SubSeq(body, 1, n))
    IN  IF n = 0 THEN NaN ELSE Num(IF neg THEN 0 - mag ELSE mag, 1)

\* parseInt(v): v is first converted to a string.  A finite number prints in
\* decimal notation from 1e-6 up (its integer part is what parseInt reads) and
\* in exponent notation below (parseInt reads its leading digit).
parseInt(v) ==
    CASE v.t = "string" -> parseIntString(v.s)
      [] v.t = "number" /\ v.k = "finite" ->
            LET a == IF v.num < 0 THEN 0 - v.num ELSE v.num
                q == IF a # 0 /\ a * 1000000 < v.den THEN LeadingDigit(a)
                     ELSE a \div v.den
            IN  Num(IF v.num < 0 THEN 0 - q ELSE q, 1)
      [] v.t = "array" /\ Len(v.items) = 1 -> 
            IF v.items[1].t = "string" THEN parseIntString(v.items[1].s) ELSE NaN
      [] OTHER -> NaN

isNaN(n) == n.k = "nan"

NoViewBox == [set |-> FALSE, width |-> 0, height |-> 0]
\* data: the document the zones were built from (history, not a DOM field)
EmptySvg == [viewBox |-> NoViewBox, image |-> <<>>, zones |-> <<>>, data |-> Null]

\* a listener is the event type and the function object registered for it;
\* the two bound closures are created per path, handleClick is shared
Listener(type, fn) == [type |-> type, fn |-> fn]

createInteractivePath(shape) ==
    [id |-> Get(shape, "id"),
     d |-> Get(shape, "path"),
     script |-> Get(shape, "script"),
     originalColor |-> Get(shape, "color"),
     fill |-> "transparent",
     title |-> IF truthy(Get(shape, "tooltip")) THEN Get(shape, "tooltip") ELSE Undefined,
     _boundMouseOver |-> "boundMouseOver",
     _boundMouseOut |-> "boundMouseOut",
     _boundClick |-> "handleClick",
     listeners |-> {Listener("click", "handleClick"),
                    Listener("mouseover", "boundMouseOver"),
                    Listener("mouseout", "boundMouseOut")}]

\* clearMap without svgContainer.innerHTML = ''
clearMap_keepContent(W) ==
    [W EXCEPT !.extensionState.isMapLoaded = FALSE,
              !.extensionState.currentMapElement = FALSE]

\* the listeners left on a path after clearMap has called
\* removeEventListener with the three references stored on the path
Detached(path) ==
    path.listeners \ {Listener("click", path._boundClick),
                      Listener("mouseover", path._boundMouseOver),
                      Listener("mouseout", path._boundMouseOut)}

\* the listeners left on a path when removeEventListener is called with
\* functions created anew instead of the stored ones
Detached_recreated(path) ==
    path.listeners \ {Listener("click", "handleClick"),
                      Listener("mouseover", "newMouseOver"),
                      Listener("mouseout", "newMouseOut")}

\* the listeners still attached to the paths of a surface once they have
\* been removed from it
StaleListeners(zones, left) ==
    UNION {{[id |-> zones[i].id, listener |-> l] : l \in left[i]} :
              i \in 1..Len(zones)}

\* clearMap detaching with functions created anew
clearMap_recreated(W) ==
    LET W1 == IF W.document.mapWindow
              THEN [W EXCEPT !.document.stale =
                                @ \cup StaleListeners(W.document.svg.zones,
                                       [i \in 1..Len(W.document.svg.zones) |->
                                           Detached_recreated(W.document.svg.zones[i])]),
                             !.document.svg.image = <<>>,
                             !.document.svg.zones = <<>>]
              ELSE W
    IN  [W1 EXCEPT !.extensionState.isMapLoaded = FALSE,
                   !.extensionState.currentMapElement = FALSE]

\* every path of the svg gives up its three listeners and is removed with
\* the rest of the content; stale: the listeners left on removed paths
clearMap(W) ==
    LET W1 == IF W.document.mapWindow
              THEN [W EXCEPT !.document.stale =
                                @ \cup StaleListeners(W.document.svg.zones,
                                       [i \in 1..Len(W.document.svg.zones) |->
                                           Detached(W.document.svg.zones[i])]),
                             !.document.svg.image = <<>>,
                             !.document.svg.zones = <<>>]
              ELSE W
    IN  [W1 EXCEPT !.extensionState.isMapLoaded = FALSE,
                   !.extensionState.currentMapElement = FALSE]

initMap(W0, svgData) ==
    LET W == [W0 EXCEPT !.document.initMapArg = svgData] IN
    IF ~W.document.mapWindow
    THEN Toast(W, "error", "Map container not found")
    ELSE
      LET W1 == clearMap(W)
          bg == Get(svgData, "backgroundImage")
          imagePathR == resolveAssetPath(Get(bg, "file"))
      IN  IF ~imagePathR.ok
          THEN Toast([W1 EXCEPT !.extensionState.isMapLoaded = FALSE],
                     "error", "Map initialization error")
          ELSE
            LET image == << [href |-> imagePathR.value,
                             width |-> Get(bg, "width"),
                             height |-> Get(bg, "height")] >>
                width == parseInt(Get(bg, "width"))
                height == parseInt(Get(bg, "height"))
                viewBox == IF ~isNaN(width) /\ ~isNaN(height)
                              /\ width.num > 0 /\ height.num > 0
                           THEN [set |-> TRUE, width |-> width.num, height |-> height.num]
                           ELSE W1.document.svg.viewBox
                shapes == Get(svgData, "shapes").items
                zones == [i \in 1..Len(shapes) |-> createInteractivePath(shapes[i])]
            IN  [W1 EXCEPT !.document.svg.image = @ \o image,
                           !.document.svg.viewBox = viewBox,
                           !.document.svg.zones = @ \o zones,
                           !.document.svg.data = svgData,
                           !.extensionState.isMapLoaded = TRUE,
                           !.extensionState.currentMapElement = TRUE]

HexVal(c) ==
    IF IsDigit(c) THEN DigitVal(c)
    ELSE CASE toLowerChar(c) = "a" -> 10 [] toLowerChar(c) = "b" -> 11
           [] toLowerChar(c) = "c" -> 12 [] toLowerChar(c) = "d" -> 13
           [] toLowerChar(c) = "e" -> 14 [] toLowerChar(c) = "f" -> 15

\* parseInt(two hex digits, 16)
parseHexPair(a, b) == HexVal(a) * 16 + HexVal(b)

\* handleMouseOver with the digits of a 3-digit color taken singly
hoverRGB_single(hex) ==
    IF Len(hex) = 4
    THEN [R |-> HexVal(hex[2]), G |-> HexVal(hex[3]), B |-> HexVal(hex[4])]
    ELSE [R |-> parseHexPair(hex[2], hex[3]),
          G |-> parseHexPair(hex[4], hex[5]),
          B |-> parseHexPair(hex[6], hex[7])]

\* the rgb triple handleMouseOver computes from dataset.originalColor
hoverRGB(hex) ==
    IF Len(hex) = 4
    THEN [R |-> parseHexPair(hex[2], hex[2]),
          G |-> parseHexPair(hex[3], hex[3]),
          B |-> parseHexPair(hex[4], hex[4])]
    ELSE [R |-> parseHexPair(hex[2], hex[3]),
          G |-> parseHexPair(hex[4], hex[5]),
          B |-> parseHexPair(hex[6], hex[7])]

handleMouseOver(W, z) ==
    [W EXCEPT !.document.svg.zones[z].fill =
        hoverRGB(TestString(W.document.svg.zones[z].originalColor))]

handleMouseOut(W, z) == [W EXCEPT !.document.svg.zones[z].fill = "transparent"]

\* failed: whether executeSlashCommands throws
handleClick(W, z, failed) ==
    LET W1 == [W EXCEPT !.document.executed = W.document.svg.zones[z].script]
    IN  IF failed THEN Toast(W1, "error", "Command error") ELSE W1

(***************************************************************************)
(* The document loader and its cache.                                      *)
(***************************************************************************)
cacheHas(cache, key) == \E i \in 1..Len(cache) : cache[i].key = key
cacheGet(cache, key) == cache[CHOOSE i \in 1..Len(cache) : cache[i].key = key].value
cacheKeys(cache) == [i \in 1..Len(cache) |-> cache[i].key]

\* Map.prototype.set: a present key keeps its place, a new key goes last
cacheSet(cache, key, value) ==
    IF cacheHas(cache, key)
    THEN [i \in 1..Len(cache) |->
            IF cache[i].key = key THEN [key |-> key, value |-> value] ELSE cache[i]]
    ELSE Append(cache, [key |-> key, value |-> value])

\* loadMapData 301-306
cacheInsert_evictLast(cache, mapName, data) ==
    cacheSet(IF Len(cache) >= maxMapCache THEN SubSeq(cache, 1, Len(cache) - 1) ELSE cache,
             mapName, data)

cacheInsert(cache, mapName, data) ==
    cacheSet(IF Len(cache) >= maxMapCache THEN Tail(cache) ELSE cache,
             mapName, data)

Error(kind, detail) == [kind |-> kind, detail |-> detail]

loadMapData_unvalidated(W, mapName, data) ==
    [ok |-> TRUE, value |-> data,
     W |-> [W EXCEPT !.mapCache = cacheInsert(@, mapName, data)]]

\* loadMapData returning a validated document without the cache insertion
loadMapData_checked_uncached(W, mapName, data, validation) ==
    IF ~validation.valid
    THEN [ok |-> FALSE, error |-> Error("Validation error", validation.errors),
          W |-> [W EXCEPT !.extensionState.lastError =
                            Error("Validation error", validation.errors)]]
    ELSE [ok |-> TRUE, value |-> data, W |-> W]

\* loadMapData from the decoded body on: validate, insert, return
\* (validation is what validateMapData returned for data)
loadMapData_checked(W, mapName, data, validation) ==
    IF ~validation.valid
    THEN [ok |-> FALSE, error |-> Error("Validation error", validation.errors),
          W |-> [W EXCEPT !.extensionState.lastError =
                            Error("Validation error", validation.errors)]]
    ELSE [ok |-> TRUE, value |-> data,
          W |-> [W EXCEPT !.mapCache = cacheInsert(@, mapName, data)]]

loadMapData_validated(W, mapName, data) ==
    loadMapData_checked(W, mapName, data, validateMapData(data))

\* loadMapData's catch: record the error and rethrow
\* the same function throwing without recording the error
loadMapData_failed_unrecorded(W, error) ==
    [ok |-> FALSE, error |-> error, W |-> W]

loadMapData_failed(W, error) ==
    [ok |-> FALSE, error |-> error,
     W |-> [W EXCEPT !.extensionState.lastError = error]]

(***************************************************************************)
(* Map selection.                                                          *)
(***************************************************************************)
ClickEvent == Obj([type |-> Str(<<"c","l","i","c","k">>)])

RECURSIVE joinSpace(_)
joinSpace(items) ==
    IF items = <<>> THEN <<>>
    ELSE IF Len(items) = 1 THEN items[1].s
    ELSE items[1].s \o <<" ">> \o joinSpace(Tail(items))

\* returns a string value or Null
normalizeMapInput(input) ==
    IF truthy(input) /\ typeof(input) = "object" /\ input.t = "object"
       /\ (Get(input, "type") = Str(<<"c","l","i","c","k">>)
           \/ truthy(Get(input, "originalEvent")))
    THEN Null
    ELSE IF input.t = "array"
    THEN LET j == trim(joinSpace(input.items)) IN IF j = <<>> THEN Null ELSE Str(j)
    ELSE IF input.t = "string"
    THEN LET j == trim(input.s) IN IF j = <<>> THEN Null ELSE Str(j)
    ELSE Null

S_json == <<".","j","s","o","n">>

\* the predicate of availableMaps.find
mapMatches(mapPath, search) ==
    LET mapLower == toLowerCase(mapPath) IN
    \/ mapLower = search
    \/ endsWith(mapLower, <<"/">> \o search \o S_json)
    \/ mapLower = search \o S_json
    \/ endsWith(mapLower, <<"/">> \o search)

\* returns a string value or Null
findMapByName(availableMaps, searchTerm) ==
    LET search == toLowerCase(searchTerm)
        hits == {i \in 1..Len(availableMaps) : mapMatches(availableMaps[i], search)}
    IN  IF hits = {} THEN Null
        ELSE Str(availableMaps[CHOOSE i \in hits : \A j \in hits : i <= j])

resolveMapPath_noSuffix(availableMaps, input) ==
    IF input = <<>> THEN Null
    ELSE
      LET trimmed == trim(input)
          found == findMapByName(availableMaps, trimmed)
      IN  IF truthy(found) THEN found ELSE Str(trimmed)

\* input: a string; returns a string value or Null
resolveMapPath(availableMaps, input) ==
    IF input = <<>> THEN Null
    ELSE
      LET trimmed == trim(input)
          found == findMapByName(availableMaps, trimmed)
      IN  IF truthy(found) THEN found
          ELSE IF endsWith(toLowerCase(trimmed), S_json) THEN Str(trimmed)
          ELSE Str(trimmed \o S_json)

(***************************************************************************)
(* The environment: the files the host serves under the extension folder.  *)
(***************************************************************************)
Chr(i) == LowerCase[i]

S_png == <<".","p","n","g">>
S_M == <<"M","0",",","0">>

Shape(id, color) ==
    Obj([id |-> Str(id), path |-> Str(S_M), color |-> Str(color),
         script |-> Str(<<"/","g","o"," ">> \o id)])

\* the i-th map document: valid for validateMapData.  The 2nd has a
\* background outside the extension folder rules, the 3rd declares a sound
\* whose path is rejected and a background under scripts/
MapDoc(i) ==
    LET base == Obj([
            backgroundImage |-> Obj([
                file |-> Str(CASE i = 2 -> <<".",".","/">> \o <<Chr(i)>> \o S_png
                               [] i = 3 -> <<"s","c","r","i","p","t","s","/">> \o <<Chr(i)>> \o S_png
                               [] OTHER -> <<Chr(i)>> \o S_png),
                width |-> IF i = 1 THEN Str(<<"8","0","0">>) ELSE Num(4 * i, 1),
                height |-> Num(3, 1)]),
            shapes |-> Arr(IF i = 1
                           THEN << Shape(<<"z","1">>, <<"#","F","0","0">>),
                                   Shape(<<"z","2">>, <<"#","0","0","f","f","0","0">>) >>
                           ELSE << Shape(<<"z", Chr(i)>>, <<"#","0","a","0">>) >>)])
    IN  CASE i = 1 -> base @@ [mapSound |-> Str(<<"a","m","b">>)]
          [] i = 3 -> base @@ [mapSound |-> Str(<<".",".","/","s">>)]
          [] OTHER -> base

\* a document validateMapData rejects: no shapes, no background size
BadDoc == Obj([backgroundImage |-> Obj([file |-> Str(<<"x">> \o S_png)]),
               shapes |-> Arr(<<>>)])

\* a document whose background file is the empty string
EmptyFileDoc ==
    Obj([backgroundImage |-> Obj([file |-> Str(<<>>), width |-> Num(4, 1),
                                  height |-> Num(3, 1)]),
         shapes |-> Arr(<< Shape(<<"z","e">>, <<"#","0","a","0">>) >>)])

\* a document two shapes of which have the same id
SameIdDoc ==
    Obj([backgroundImage |-> Obj([file |-> Str(<<"d">> \o S_png), width |-> Num(4, 1),
                                  height |-> Num(3, 1)]),
         shapes |-> Arr(<< Shape(<<"z","1">>, <<"#","F","0","0">>),
                           Shape(<<"z","1">>, <<"#","0","0","f","f","0","0">>) >>)])

\* a document whose width is 0.5
FractionDoc ==
    Obj([backgroundImage |-> Obj([file |-> Str(<<"f">> \o S_png), width |-> Num(5, 10),
                                  height |-> Num(3, 1)]),
         shapes |-> Arr(<< Shape(<<"z","f">>, <<"#","0","a","0">>) >>)])

\* a document whose mapSound is a number
NumberSoundDoc ==
    Obj([backgroundImage |-> Obj([file |-> Str(<<"n">> \o S_png), width |-> Num(4, 1),
                                  height |-> Num(3, 1)]),
         shapes |-> Arr(<< Shape(<<"z","n">>, <<"#","0","a","0">>) >>),
         mapSound |-> Num(7, 1)])

MapName(i) == <<Chr(i)>> \o S_json
NumMaps == maxMapCache + 1
N_bad == <<"b","a","d">> \o S_json
N_mal == <<"m","a","l">> \o S_json
N_emp == <<"e","m","p">> \o S_json
N_dup == <<"d","u","p">> \o S_json
N_frc == <<"f","r","c">> \o S_json
N_snd == <<"s","n","d">> \o S_json

\* the body served for a key: a JSON value, text that is not JSON, or no file
ServerFile(key) ==
    IF \E i \in 1..NumMaps : MapName(i) = key
    THEN [status |-> 200, json |-> TRUE,
          data |-> MapDoc(CHOOSE i \in 1..NumMaps : MapName(i) = key)]
    ELSE IF key = N_bad THEN [status |-> 200, json |-> TRUE, data |-> BadDoc]
    ELSE IF key = N_mal THEN [status |-> 200, json |-> FALSE, data |-> Null]
    ELSE IF key = N_emp THEN [status |-> 200, json |-> TRUE, data |-> EmptyFileDoc]
    ELSE IF key = N_dup THEN [status |-> 200, json |-> TRUE, data |-> SameIdDoc]
    ELSE IF key = N_frc THEN [status |-> 200, json |-> TRUE, data |-> FractionDoc]
    ELSE IF key = N_snd THEN [status |-> 200, json |-> TRUE, data |-> NumberSoundDoc]
    ELSE [status |-> 404, json |-> FALSE, data |-> Null]

DEFAULT_MAP == <<"S","i","l","l","y","T","a","v","e","r","n">> \o S_json

(***************************************************************************)
(* showMap.  A call that reaches the fetch is suspended (pc = "fetch", then *)
(* "body" while response.json() reads the body) and resumed by the          *)
(* environment; everything between two suspensions is one step.            *)
(***************************************************************************)
IdleCall == [pc |-> "idle", targetMap |-> Null]

makeMovable(W) ==
    IF W.document.mapWindow THEN W
    ELSE [W EXCEPT !.document.mapWindow = TRUE, !.document.svg = EmptySvg]

\* showMap after loadMapData has returned svgData
\* showMap if playMapSound let its failures through: a sound that cannot be
\* played ends the call in showMap's catch
showMap_loaded_soundThrows(W, targetMap, svgData, allowed) ==
    LET W1 == [W EXCEPT !.extensionState.currentLoadedMap = targetMap]
        sound == Get(svgData, "mapSound")
    IN  IF truthy(sound)
           /\ (\/ ~allowed
               \/ sound.t # "string"
               \/ ~validateAssetPath(Str(soundPath(TestString(sound)))).ok)
        THEN Toast([W1 EXCEPT !.extensionState.lastError = [kind |-> "Audio error", detail |-> <<>>]],
                   "error", "Audio error")
        ELSE Toast(initMap(playMapSound(W1, sound, allowed), svgData),
                   "success", "Map loaded")

\* showMap after a load that leaves currentLoadedMap as it was
showMap_loaded_currentKept(W, targetMap, svgData, allowed) ==
    LET W2 == IF truthy(Get(svgData, "mapSound"))
              THEN playMapSound(W, Get(svgData, "mapSound"), allowed)
              ELSE W
        W3 == initMap(W2, svgData)
    IN  Toast(W3, "success", "Map loaded")

showMap_loaded(W, targetMap, svgData, allowed) ==
    LET W1 == [W EXCEPT !.extensionState.currentLoadedMap = targetMap]
        W2 == IF truthy(Get(svgData, "mapSound"))
              THEN playMapSound(W1, Get(svgData, "mapSound"), allowed)
              ELSE W1
        W3 == initMap(W2, svgData)
    IN  Toast(W3, "success", "Map loaded")

showMap_catch_silent(W, error) == W

\* showMap's catch
\* the catch of showMap clearing the surface as well
showMap_catch_clears(W, error) ==
    Toast([clearMap(W) EXCEPT !.extensionState.lastError = error], "error", error.kind)

showMap_catch(W, error) ==
    Toast([W EXCEPT !.extensionState.lastError = error], "error", error.kind)

\* the result of a call that ends: the world and the call's record
Loaded(W, targetMap, svgData, allowed) ==
    [W |-> showMap_loaded(W, targetMap, svgData, allowed),
     call |-> IdleCall]

Failed(W, targetMap, error) ==
    [W |-> showMap_catch(loadMapData_failed(W, error).W, error),
     call |-> IdleCall]

\* loadMapData once the body file has been read: text that is not JSON
\* throws, a JSON value goes on to validation
loadMapData_body(W, mapName, file) ==
    IF ~file.json
    THEN loadMapData_failed(W, Error("JSON parse error", <<>>))
    ELSE loadMapData_validated(W, mapName, file.data)

\* showMap once loadMapData has settled with l
showMap_settled(W, targetMap, l, allowed) ==
    IF l.ok THEN Loaded(l.W, targetMap, l.value, allowed)
    ELSE Failed(W, targetMap, l.error)

\* history: the keys inserted since the cache was empty, as long as they
\* are distinct and at most maxMapCache + 1; void (distinct = FALSE)
\* afterwards
NoRun == [distinct |-> TRUE, keys |-> <<>>]

fillRunAfter(run, cacheBefore, key, inserted) ==
    IF ~inserted \/ ~run.distinct THEN run
    ELSE IF Len(run.keys) > maxMapCache \/ (\E i \in 1..Len(run.keys) : run.keys[i] = key)
    THEN [distinct |-> FALSE, keys |-> <<>>]
    ELSE [run EXCEPT !.keys = Append(@, key)]

\* showMap with a cache in which a hit makes the entry the newest
showMap_target_lru(W, targetMap, allowed) ==
    IF ~truthy(targetMap)
    THEN [W |-> Toast(W, "warning", "Map not selected"),
          call |-> IdleCall]
    ELSE
      LET W1 == makeMovable(W) IN
      IF cacheHas(W1.mapCache, targetMap.s)
      THEN Loaded([W1 EXCEPT !.mapCache =
                      Append(SelectSeq(@, LAMBDA e : e.key # targetMap.s),
                             [key |-> targetMap.s, value |-> cacheGet(@, targetMap.s)])],
                  targetMap, cacheGet(W1.mapCache, targetMap.s), allowed)
      ELSE IF ~validateAssetPath(targetMap).ok
      THEN Failed(W1, targetMap, Error(validateAssetPath(targetMap).error, <<>>))
      ELSE [W |-> W1,
            call |-> [pc |-> "fetch", targetMap |-> targetMap]]

\* showMap from its targetMap up to its first suspension
showMap_target(W, targetMap, allowed) ==
    IF ~truthy(targetMap)
    THEN [W |-> Toast(W, "warning", "Map not selected"),
          call |-> IdleCall]
    ELSE
      LET W1 == makeMovable(W) IN
      IF cacheHas(W1.mapCache, targetMap.s)
      THEN Loaded(W1, targetMap, cacheGet(W1.mapCache, targetMap.s), allowed)
      ELSE IF ~validateAssetPath(targetMap).ok
      THEN Failed(W1, targetMap, Error(validateAssetPath(targetMap).error, <<>>))
      ELSE [W |-> W1,
            call |-> [pc |-> "fetch", targetMap |-> targetMap]]

\* showMap up to its first suspension
showMap_begin(W, input, allowed) ==
    LET normalizedInput == normalizeMapInput(input) IN
    showMap_target(W,
                   IF truthy(normalizedInput)
                   THEN resolveMapPath(W.extensionState.availableMaps, normalizedInput.s)
                   ELSE W.extensionState.currentLoadedMap,
                   allowed)

ShowMap(p, input, allowed) ==
    /\ calls[p].pc = "idle"
    /\ \E r \in {showMap_begin(Cur, input, allowed)} :
       /\ Len(r.W.document.audios) <= MaxElements
       /\ Becomes(r.W)
       /\ calls' = [calls EXCEPT ![p] = r.call]
       /\ Logged(Settled(NoCommand, r.call))
    /\ UNCHANGED <<indexCall, fillRun>>

\* the response arrives: not ok throws HTTP <status>, ok goes on to the body
FetchResponds(p) ==
    /\ calls[p].pc = "fetch"
    /\ LET file == ServerFile(calls[p].targetMap.s) IN
       IF file.status = 200
       THEN /\ calls' = [calls EXCEPT ![p].pc = "body"]
            /\ UNCHANGED world
            /\ Logged(NoCommand)
       ELSE LET r == Failed(Cur, calls[p].targetMap, Error("HTTP", file.status)) IN
            /\ Becomes(r.W)
            /\ calls' = [calls EXCEPT ![p] = r.call]
            /\ Logged(Settled([NoCommand EXCEPT !.op = "fail", !.kind = "map",
                                                !.input = calls[p].targetMap], r.call))
    /\ UNCHANGED <<indexCall, fillRun>>

\* fetch rejects: the network failed
FetchFails(p) ==
    /\ calls[p].pc = "fetch"
    /\ LET r == Failed(Cur, calls[p].targetMap, Error("Failed to fetch", <<>>)) IN
       /\ Becomes(r.W)
       /\ calls' = [calls EXCEPT ![p] = r.call]
       /\ Logged(Settled([NoCommand EXCEPT !.op = "fail", !.kind = "map",
                                           !.input = calls[p].targetMap], r.call))
    /\ UNCHANGED <<indexCall, fillRun>>

\* response.json() settles, then validation, cache insertion and the rest of
\* showMap
BodyRead(p, allowed) ==
    /\ calls[p].pc = "body"
    /\ \E targetMap \in {calls[p].targetMap} :
       \E l \in {loadMapData_body(Cur, targetMap.s, ServerFile(targetMap.s))} :
       \E r \in {showMap_settled(Cur, targetMap, l, allowed)} :
           /\ Len(r.W.document.audios) <= MaxElements
           /\ Becomes(r.W)
           /\ calls' = [calls EXCEPT ![p] = r.call]
           /\ fillRun' = fillRunAfter(fillRun, mapCache, targetMap.s, l.ok)
           /\ Logged(Settled([NoCommand EXCEPT !.op = "load", !.kind = "map",
                                               !.input = targetMap, !.allowed = l.ok],
                              r.call))
    /\ UNCHANGED indexCall

\* the same timer cleared as soon as the response arrives: it can abort the
\* request but not the reading of the body
FetchTimeout_requestOnly(p) ==
    /\ calls[p].pc = "fetch"
    /\ LET error == Error("Timeout loading map", <<>>)
           r == Failed(Cur, calls[p].targetMap, error)
       IN  /\ Becomes(r.W)
           /\ calls' = [calls EXCEPT ![p] = r.call]
           /\ Logged(Settled([NoCommand EXCEPT !.op = "timeout", !.kind = calls[p].pc,
                                               !.input = calls[p].targetMap], r.call))
    /\ UNCHANGED <<indexCall, fillRun>>

\* the fetchTimeout timer fires: controller.abort().  A pending fetch rejects
\* with AbortError, which becomes the timeout error; a pending
\* response.json() rejects with AbortError inside the inner try, which wraps
\* it in a plain Error('JSON parse error: ...')
FetchTimeout(p) ==
    /\ calls[p].pc \in {"fetch", "body"}
    /\ LET error == IF calls[p].pc = "fetch"
                    THEN Error("Timeout loading map", <<>>)
                    ELSE Error("JSON parse error", <<>>)
           r == Failed(Cur, calls[p].targetMap, error)
       IN  /\ Becomes(r.W)
           /\ calls' = [calls EXCEPT ![p] = r.call]
           /\ Logged(Settled([NoCommand EXCEPT !.op = "timeout", !.kind = calls[p].pc,
                                               !.input = calls[p].targetMap], r.call))
    /\ UNCHANGED <<indexCall, fillRun>>

(***************************************************************************)
(* Discovery of the listing and the Refresh button.                        *)
(***************************************************************************)
\* tryLoadMapsFromIndex on a decoded index.json
indexMaps(index) ==
    IF index.t = "array" THEN [i \in 1..Len(index.items) |-> index.items[i].s]
    ELSE IF index.t = "object" /\ truthy(Get(index, "maps")) THEN
        [i \in 1..Len(Get(index, "maps").items) |-> Get(index, "maps").items[i].s]
    ELSE <<>>

\* tryLoadMapsFromIndex once the index fetch has settled.  outcome is what
\* happened to the request: "timeout" (the indexTimeout timer aborted it),
\* "network" (fetch rejected), "http" (a response that is not ok), "parse"
\* (the body is not JSON) or "json" (the body decoded to index).  Every path
\* of the function returns a list.
tryLoadMapsFromIndex(outcome, index) ==
    CASE outcome \in {"timeout", "network"} -> Ok(<<>>)
      [] outcome = "http" -> Ok(<<>>)
      [] outcome = "parse" -> Ok(<<>>)
      [] outcome = "json" -> Ok(indexMaps(index))

discoverAvailableMaps_noDefault(W, indexedMaps) ==
    [W EXCEPT !.extensionState.availableMaps = indexedMaps]

\* discoverAvailableMaps on the listing tryLoadMapsFromIndex returned
discoverAvailableMaps(W, indexedMaps) ==
    [W EXCEPT !.extensionState.availableMaps =
        IF Len(indexedMaps) > 0 THEN indexedMaps ELSE << DEFAULT_MAP >>]

\* discoverAvailableMaps as a whole: r is what tryLoadMapsFromIndex returned
\* or threw.  The value returned is extensionState.availableMaps.
discoverAvailableMaps_settled(W, r) ==
    IF r.ok THEN discoverAvailableMaps(W, r.value)
    ELSE [W EXCEPT !.extensionState.availableMaps = << DEFAULT_MAP >>]

\* initializeMapSelection after discovery: fill the dropdown, select maps[0]
initializeMapSelection(W, indexedMaps) ==
    LET W1 == discoverAvailableMaps_settled(W, indexedMaps)
        maps == W1.extensionState.availableMaps
    IN  [W1 EXCEPT !.document.selectOptions = maps,
                   !.extensionState.currentLoadedMap =
                        IF Len(maps) > 0 THEN Str(maps[1]) ELSE @]

\* #map_refresh click, up to the index fetch
Refresh ==
    /\ indexCall.pc = "idle"
    /\ Becomes(Toast([Cur EXCEPT !.mapCache = <<>>,
                                 !.extensionState.availableMaps = <<>>],
                     "info", "Refreshing map list..."))
    /\ indexCall' = [pc |-> "fetch"]
    /\ fillRun' = NoRun
    /\ Logged(NoCommand)
    /\ UNCHANGED calls

\* the rest of the #map_refresh handler once the index request has settled;
\* the log holds the outcome of the request and the listing that came back
RefreshDone(outcome, index) ==
    /\ \E r \in {tryLoadMapsFromIndex(outcome, index)} :
        /\ Becomes(Toast(initializeMapSelection(Cur, r), "success", "Maps refreshed!"))
        /\ Logged([NoCommand EXCEPT !.op = "discover", !.kind = outcome,
                                    !.allowed = r.ok,
                                    !.input = IF r.ok THEN Arr(r.value) ELSE Undefined])
    /\ indexCall' = [pc |-> "idle"]
    /\ UNCHANGED <<calls, fillRun>>

\* the index response arrives (clearTimeout): not ok returns [], ok goes on
\* to the body
IndexResponds(ok) ==
    /\ indexCall.pc = "fetch"
    /\ IF ok THEN /\ indexCall' = [pc |-> "body"]
                  /\ Logged(NoCommand)
                  /\ UNCHANGED <<world, calls, fillRun>>
       ELSE RefreshDone("http", Undefined)

\* fetch of the index rejects: the network failed
IndexFetchFails ==
    /\ indexCall.pc = "fetch"
    /\ RefreshDone("network", Undefined)

\* the indexTimeout timer fires while the fetch is pending: controller.abort()
IndexTimeout ==
    /\ indexCall.pc = "fetch"
    /\ RefreshDone("timeout", Undefined)

\* response.json() of the index settles: index is the decoded value, or
\* Undefined when the body is not JSON
IndexBodyRead(index) ==
    /\ indexCall.pc = "body"
    /\ RefreshDone(IF index = Undefined THEN "parse" ELSE "json", index)

\* change of #mapSelections
SelectChange(i) ==
    /\ i \in 1..Len(document.selectOptions)
    /\ extensionState' = [extensionState EXCEPT
                             !.currentLoadedMap = Str(document.selectOptions[i])]
    /\ UNCHANGED <<mapCache, mapAudioElement, mapImageElement, mapImageCloseButton,
                   mapVideoElement, mapVideoCloseButton, document, toastr,
                   calls, indexCall, fillRun>>
    /\ Logged(NoCommand)

(***************************************************************************)
(* Media commands, the Close buttons, the window's close handler and the   *)
(* events of the page.                                                     *)
(***************************************************************************)
Step(W) == Becomes(W) /\ Logged(NoCommand) /\ UNCHANGED <<calls, indexCall, fillRun>>

\* a step that runs a media command
Ran(W, op, kind, input, allowed) ==
    Becomes(W) /\ Command(op, kind, input, allowed) /\ UNCHANGED <<calls, indexCall, fillRun>>

\* a step that runs a whole slash-command handler, which returns a string
RanHandler(W, op, kind, input, allowed, returned) ==
    /\ Becomes(W)
    /\ Handled(op, kind, input, allowed, returned)
    /\ UNCHANGED <<calls, indexCall, fillRun>>

PlayMapSound(name, allowed) ==
    LET W == playMapSound(Cur, name, allowed) IN
    /\ Len(W.document.audios) <= MaxElements
    /\ Ran(W, "play", "audio", name, allowed)

StopSound ==
    RanHandler(Toast(stopCurrentMapAudio(Cur), "success", "Map sound stopped"),
               "stop", "audio", Undefined, FALSE, Str(<<>>))

ShowMapImage(name, opts) ==
    LET W == showMapImage(Cur, name, opts) IN
    /\ Len(W.document.images) <= MaxElements
    /\ Ran(W, "play", "image", name, TRUE)

StopImage ==
    RanHandler(Toast(stopCurrentMapImage(Cur), "success", "Image hidden"),
               "stop", "image", Undefined, FALSE, Str(<<>>))

PlayMapVideo(name, opts, allowed) ==
    LET W == playMapVideo(Cur, name, opts, allowed) IN
    /\ Len(W.document.videos) <= MaxElements
    /\ Ran(W, "play", "video", name, opts.autoplay /\ allowed)

StopVideo ==
    RanHandler(Toast(stopCurrentMapVideo(Cur), "success", "Video stopped"),
               "stop", "video", Undefined, FALSE, Str(<<>>))

\* getRawArgs 1335-1349: value if it is a non-blank string, else args
getRawArgs(args, value) ==
    IF value.t = "string" /\ trim(value.s) # <<>> THEN trim(value.s)
    ELSE IF args.t = "array" THEN trim(joinSpace(args.items))
    ELSE IF args.t = "string" THEN trim(args.s)
    ELSE <<>>

\* the 'Usage: ...' text a handler returns when it is given no argument
UsageText == Str(<<"U","s","a","g","e">>)

\* opts = {}: no size; muted and loop off, autoplay on
NoImageOpts == [sizePct |-> 0]
NoVideoOpts == [muted |-> FALSE, loop |-> FALSE, autoplay |-> TRUE, sizePct |-> 0]

\* the handlers of /showmap_sound, /showmap_image and /showmap_video on a
\* raw argument that holds no sound=, size=, muted= or loop= fragment (the
\* option patterns match nothing and the name is raw): the world the
\* handler leaves and the string it returns
showmap_sound(W, raw, allowed) ==
    IF raw = <<>> THEN [W |-> W, returned |-> UsageText]
    ELSE [W |-> playMapSound(W, Str(raw), allowed), returned |-> Str(<<>>)]

showmap_image(W, raw) ==
    IF raw = <<>> THEN [W |-> W, returned |-> UsageText]
    ELSE [W |-> showMapImage(W, Str(raw), NoImageOpts), returned |-> Str(<<>>)]

showmap_video(W, raw, allowed) ==
    IF raw = <<>> THEN [W |-> W, returned |-> UsageText]
    ELSE [W |-> playMapVideo(W, Str(raw), NoVideoOpts, allowed), returned |-> Str(<<>>)]

\* rawHasNoOption: none of the option patterns can match
NoOption(raw) == \A i \in 1..Len(raw) : raw[i] # "="

CmdShowmapSound(args, value, allowed) ==
    \E raw \in {getRawArgs(args, value)} :
    \E h \in {showmap_sound(Cur, raw, allowed)} :
        /\ NoOption(raw)
        /\ Len(h.W.document.audios) <= MaxElements
        /\ RanHandler(h.W, "play", "audio", Str(raw), allowed, h.returned)

CmdShowmapImage(args, value) ==
    \E raw \in {getRawArgs(args, value)} :
    \E h \in {showmap_image(Cur, raw)} :
        /\ NoOption(raw)
        /\ Len(h.W.document.images) <= MaxElements
        /\ RanHandler(h.W, "play", "image", Str(raw), TRUE, h.returned)

CmdShowmapVideo(args, value, allowed) ==
    \E raw \in {getRawArgs(args, value)} :
    \E h \in {showmap_video(Cur, raw, allowed)} :
        /\ NoOption(raw)
        /\ Len(h.W.document.videos) <= MaxElements
        /\ RanHandler(h.W, "play", "video", Str(raw), allowed, h.returned)

\* the /showmap handler: showMap(value || args)
CmdShowmap(p, args, value, allowed) ==
    ShowMap(p, IF truthy(value) THEN value ELSE args, allowed)

\* click on #mapImageClose / #mapVideoClose
ImageCloseClick ==
    /\ document.imageBtn.attached /\ document.imageBtn.display # "none"
    /\ Ran(stopCurrentMapImage(Cur), "stop", "image", Undefined, FALSE)

VideoCloseClick ==
    /\ document.videoBtn.attached /\ document.videoBtn.display # "none"
    /\ Ran(stopCurrentMapVideo(Cur), "stop", "video", Undefined, FALSE)

\* $element.off().remove(): the window leaves the page with all it contains
removeWindow(W) ==
    [W EXCEPT !.document.mapWindow = FALSE,
              !.document.svg = EmptySvg,
              !.document.images = [i \in 1..Len(@) |-> [@[i] EXCEPT !.attached = FALSE]],
              !.document.videos = [i \in 1..Len(@) |->
                                      [@[i] EXCEPT !.attached = FALSE, !.playing = FALSE]],
              !.document.imageBtn.attached = FALSE,
              !.document.videoBtn.attached = FALSE]

\* setupCloseHandler: click on '#map .dragClose'
closeHandler(W) ==
    removeWindow(stopCurrentMapVideo(stopCurrentMapImage(stopCurrentMapAudio(clearMap(W)))))

CloseWindow ==
    /\ document.mapWindow
    /\ Step(closeHandler(Cur))

MouseOver(z) ==
    /\ z \in 1..Len(document.svg.zones)
    /\ Listener("mouseover", document.svg.zones[z]._boundMouseOver)
          \in document.svg.zones[z].listeners
    /\ Step(handleMouseOver(Cur, z))

MouseOut(z) ==
    /\ z \in 1..Len(document.svg.zones)
    /\ Listener("mouseout", document.svg.zones[z]._boundMouseOut)
          \in document.svg.zones[z].listeners
    /\ Step(handleMouseOut(Cur, z))

\* outcome of the call executeSlashCommands(script): it returns ("done"),
\* it throws ("throws"), or it returns a promise that is rejected later
\* ("rejects"); handleClick does not await the call, so only a throw reaches
\* its catch
Click(z, outcome) ==
    /\ z \in 1..Len(document.svg.zones)
    /\ Listener("click", "handleClick") \in document.svg.zones[z].listeners
    /\ Becomes(handleClick(Cur, z, outcome = "throws"))
    /\ Logged([NoCommand EXCEPT !.op = "click", !.kind = outcome,
                                !.input = document.svg.zones[z].script])
    /\ UNCHANGED <<calls, indexCall, fillRun>>

\* playback runs: the position of a playing audio advances
AudioPlays(el) ==
    /\ el \in 1..Len(document.audios)
    /\ document.audios[el].playing /\ document.audios[el].currentTime = 0
    /\ Step([Cur EXCEPT !.document.audios[el].currentTime = 1])

\* the audio reaches its end (onended) or its file cannot be loaded (onerror)
AudioEnds(el, error) ==
    /\ el \in 1..Len(document.audios)
    /\ document.audios[el].playing
    /\ LET W == [Cur EXCEPT !.document.audios[el].playing = FALSE] IN
       Step(IF error THEN Toast(W, "error", "Map audio file error") ELSE W)

\* a video that does not loop reaches its end
VideoEnds(el) ==
    /\ el \in 1..Len(document.videos)
    /\ document.videos[el].playing /\ ~document.videos[el].loop
    /\ Step([Cur EXCEPT !.document.videos[el].playing = FALSE])

\* the window is resized: the listener playMapVideo installed runs
WindowResize ==
    /\ document.resizeListeners > 0
    /\ mapVideoElement # NoElement
    /\ ~document.mapWindow \/ videoAttached(Cur, mapVideoElement)
    /\ Step([Cur EXCEPT !.document.videos[mapVideoElement] = resizeVideoToSvg(@)])

(***************************************************************************)
(* Initial state: the extension has initialised.  Discovery has set        *)
(* availableMaps (the listing, or the default map when there is none); the *)
(* dropdown did not exist yet, so no map is selected.                      *)
(***************************************************************************)
Listing == [i \in 1..NumMaps |-> MapName(i)]

EmptyDocument ==
    [mapWindow |-> FALSE, svg |-> EmptySvg,
     audios |-> <<>>, images |-> <<>>, videos |-> <<>>,
     imageBtn |-> NoButton, videoBtn |-> NoButton,
     _mapVideoResizeListener |-> FALSE, resizeListeners |-> 0,
     selectOptions |-> <<>>, executed |-> Null, initMapArg |-> Null,
     stale |-> {}]

NoProbe == [fn |-> "none"]

InitWith(listings, probes, toast) ==
    /\ mapCache = <<>>
    /\ extensionState \in
          {[currentLoadedMap |-> Null, availableMaps |-> l, isMapLoaded |-> FALSE,
            lastError |-> Null, currentMapElement |-> FALSE] : l \in listings}
    /\ mapAudioElement = NoElement
    /\ mapImageElement = NoElement
    /\ mapImageCloseButton = NoElement
    /\ mapVideoElement = NoElement
    /\ mapVideoCloseButton = NoElement
    /\ document = EmptyDocument
    /\ toastr = toast
    /\ calls = [p \in 1..MaxCalls |-> IdleCall]
    /\ indexCall = [pc |-> "idle"]
    /\ fillRun = NoRun
    /\ probe \in probes

Init == InitWith({Listing}, {NoCommand}, NoToast)

(***************************************************************************)
(* Spec: the document loader.  showMap is called with the name of a map of *)
(* the listing, of a document that fails validation, of a body that is not *)
(* JSON, of a file the host does not serve, or from a click.               *)
(***************************************************************************)
ShowInputs ==
    {Str(<<"a">>), Str(<<"b","a","d">>), Str(<<"m","a","l">>), Str(<<"x">>), ClickEvent}

Next ==
    \/ \E p \in 1..MaxCalls, i \in ShowInputs, allowed \in BOOLEAN : ShowMap(p, i, allowed)
    \/ \E p \in 1..MaxCalls : FetchResponds(p)
    \/ \E p \in 1..MaxCalls : FetchFails(p)
    \/ \E p \in 1..MaxCalls, allowed \in BOOLEAN : BodyRead(p, allowed)
    \/ \E p \in 1..MaxCalls : FetchTimeout(p)
    \/ CloseWindow

Spec == Init /\ [][Next]_vars

\* C2: every document in mapCache and every document initMap was called with
\* or rendered passes validateMapData; a load whose body fails validation
\* ends with a validation error and leaves the document out of the cache
C2_OnlyValidatedDocuments ==
    /\ \A i \in 1..Len(mapCache) : validateMapData(mapCache[i].value).valid
    /\ document.initMapArg # Null => validateMapData(document.initMapArg).valid
    /\ document.svg.data # Null => validateMapData(document.svg.data).valid
    /\ (probe.op = "load" /\ ServerFile(probe.input.s).json
          /\ ~validateMapData(ServerFile(probe.input.s).data).valid)
       => /\ extensionState.lastError.kind = "Validation error"
          /\ toastr = [level |-> "error", msg |-> "Validation error"]
          /\ ~cacheHas(mapCache, probe.input.s)
          /\ document.initMapArg # ServerFile(probe.input.s).data

\* the load of a document that fails validation has just ended, while a
\* validated document is cached and rendered
C2_Witness ==
    /\ probe.op = "load" /\ probe.input = Str(N_bad)
    /\ mapCache # <<>>
    /\ document.svg.data = MapDoc(1)
    /\ extensionState.lastError.kind = "Validation error"

\* C13: whenever the fetchTimeout timer fires while a load is waiting for
\* the response or reading the body, the load fails with the timeout error
C13_TimeoutSurfacesTimeoutError ==
    probe.op = "timeout" =>
        /\ extensionState.lastError = Error("Timeout loading map", <<>>)
        /\ toastr = [level |-> "error", msg |-> "Timeout loading map"]

(***************************************************************************)
(* SpecCache: the maps of the listing are shown one after another.         *)
(***************************************************************************)
CacheInputs == {Str(<<Chr(i)>>) : i \in 1..NumMaps}

NextCache ==
    \/ \E p \in 1..MaxCalls, i \in CacheInputs : ShowMap(p, i, TRUE)
    \/ \E p \in 1..MaxCalls : FetchResponds(p)
    \/ \E p \in 1..MaxCalls : BodyRead(p, TRUE)

InitCache == InitWith({Listing}, {NoProbe}, Unobserved)

SpecCache == InitCache /\ [][NextCache]_vars

\* C9: once maxMapCache + 1 distinct documents have been inserted into an
\* empty cache, the cache holds exactly the keys after the first, in the
\* order they were inserted
C9_EvictsFirstInserted ==
    (fillRun.distinct /\ Len(fillRun.keys) = maxMapCache + 1)
    => /\ Len(mapCache) = maxMapCache
       /\ cacheKeys(mapCache) = Tail(fillRun.keys)
       /\ ~cacheHas(mapCache, Head(fillRun.keys))

\* maxMapCache + 1 distinct documents have been loaded
C9_Witness ==
    /\ fillRun.distinct /\ Len(fillRun.keys) = maxMapCache + 1
    /\ \A p \in 1..MaxCalls : calls[p].pc = "idle"
    /\ extensionState.currentLoadedMap = Str(fillRun.keys[maxMapCache + 1])

(***************************************************************************)
(* SpecPath: the path functions on their own.  The probe is a JavaScript   *)
(* value: a string put together from at most MaxPieces pieces, or a value  *)
(* that is not a string.  Each step applies one of the functions that turn  *)
(* a path into the URL the extension loads.                                *)
(***************************************************************************)
PathPieces ==
    {<<"a">>, <<".">>, <<"/">>, <<"\\">>, <<":">>, <<"C">>, <<" ">>,
     <<"s","c","r","i","p","t","s","/">>, <<"s","o","u","n","d","s","/">>,
     <<".","m","p","3">>}

RECURSIVE PiecedStrings(_, _)
PiecedStrings(pieces, n) ==
    IF n = 0 THEN {<<>>}
    ELSE LET shorter == PiecedStrings(pieces, n - 1) IN
         shorter \cup {s \o q : s \in shorter, q \in pieces}

PathProbes ==
    {Str(s) : s \in PiecedStrings(PathPieces, MaxPieces)}
    \cup {Undefined, Null, Num(0, 1), Num(5, 1)}

InitPath == InitWith({Listing}, {[fn |-> "input", input |-> v] : v \in PathProbes}, NoToast)

Probed(fn, out) ==
    /\ probe.fn = "input"
    /\ probe' = [fn |-> fn, input |-> probe.input, out |-> out]
    /\ UNCHANGED <<world, calls, indexCall, fillRun>>

\* the URL a function loads, when it accepts the path
Url(relativePath) ==
    IF validateAssetPath(Str(relativePath)).ok
    THEN Ok(extensionFolderPath \o <<"/">> \o relativePath)
    ELSE validateAssetPath(Str(relativePath))

ProbeValidate == Probed("validateAssetPath", validateAssetPath(probe.input))

\* loadMapData 287-288: the map document
ProbeMapUrl ==
    Probed("loadMapData",
           IF validateAssetPath(probe.input).ok
           THEN Ok(extensionFolderPath \o <<"/">> \o probe.input.s)
           ELSE validateAssetPath(probe.input))

\* initMap 945: the background image
ProbeBackgroundUrl == Probed("initMap", resolveAssetPath(probe.input))

\* playMapSound 378-401, showMapImage 539-560, playMapVideo 736-753
ProbeSoundUrl ==
    /\ probe.input.t = "string" /\ truthy(probe.input)
    /\ Probed("playMapSound", Url(soundPath(probe.input.s)))

ProbeImageUrl ==
    /\ probe.input.t = "string" /\ truthy(probe.input)
    /\ Probed("showMapImage", Url(imagePath(probe.input.s)))

ProbeVideoUrl ==
    /\ probe.input.t = "string" /\ truthy(probe.input)
    /\ Probed("playMapVideo", Url(videoPath(probe.input.s)))

NextPath ==
    \/ ProbeValidate
    \/ ProbeMapUrl
    \/ ProbeBackgroundUrl
    \/ ProbeSoundUrl
    \/ ProbeImageUrl
    \/ ProbeVideoUrl

SpecPath == InitPath /\ [][NextPath]_vars

\* the features C1 lists, read off the characters of the path
HasDotDot(s) == \E i \in 1..(Len(s) - 1) : s[i] = "." /\ s[i + 1] = "."
HasDoubledBackslash(s) == \E i \in 1..(Len(s) - 1) : s[i] = "\\" /\ s[i + 1] = "\\"
HasDrivePrefix(s) == Len(s) >= 2 /\ IsLetter(s[1]) /\ s[2] = ":"

Dangerous(v) ==
    \/ v.t # "string"
    \/ v.s = <<>>
    \/ HasDotDot(v.s)
    \/ v.s[1] = "/"
    \/ v.s[1] = "\\"
    \/ HasDoubledBackslash(v.s)
    \/ HasDrivePrefix(v.s)

\* C1: validateAssetPath throws for every path that is not a string, is
\* empty, contains '..', starts with '/' or '\', contains a doubled backslash
\* or starts with a drive letter and ':'; for every other path it returns true
C1_ValidateRejectsExactlyDangerous ==
    probe.fn = "validateAssetPath" =>
        /\ Dangerous(probe.input) <=> ~probe.out.ok
        /\ probe.out.ok => probe.out.value = TRUE

\* a path starting with a backslash has been rejected
C1_Witness ==
    /\ probe.fn = "validateAssetPath"
    /\ probe.input.t = "string"
    /\ probe.input.s # <<>> /\ probe.input.s[1] = "\\"
    /\ ~HasDotDot(probe.input.s) /\ ~HasDoubledBackslash(probe.input.s)
    /\ ~probe.out.ok

\* C4: every URL resolved for loading (map document, background image, sound,
\* image, video) starts with the extension folder path followed by '/'
C4_ResolvedInsideExtensionFolder ==
    (probe.fn \in {"loadMapData", "initMap", "playMapSound", "showMapImage",
                   "playMapVideo"} /\ probe.out.ok)
        => startsWith(probe.out.value, extensionFolderPath \o <<"/">>)

(***************************************************************************)
(* SpecResolve: resolveMapPath on its own.  The probe is a known-maps list *)
(* of at most MaxEntries entries and a term of at most MaxPieces pieces.   *)
(***************************************************************************)
MaxEntries == 2

KnownEntries ==
    {<<"c">> \o S_json,
     <<"m","/","c">> \o S_json,
     <<"o","/","m","/","c">> \o S_json,
     <<"M","/","C",".","J","S","O","N">>,
     <<"t">> \o S_json}

TermPieces == {<<"c">>, <<"C">>, <<"m","/">>, <<"o","/">>, S_json, <<" ">>, <<"t">>}

RECURSIVE Lists(_, _)
Lists(entries, n) ==
    IF n = 0 THEN {<<>>}
    ELSE LET shorter == Lists(entries, n - 1) IN
         shorter \cup {Append(l, e) : l \in shorter, e \in entries}

InitResolve ==
    InitWith({Listing},
             {[fn |-> "input", availableMaps |-> l, input |-> t] :
                 l \in Lists(KnownEntries, MaxEntries),
                 t \in PiecedStrings(TermPieces, MaxPieces)},
             NoToast)

ProbeResolve ==
    /\ probe.fn = "input"
    /\ probe' = [probe EXCEPT !.fn = "resolveMapPath"]
                @@ [out |-> resolveMapPath(probe.availableMaps, probe.input)]
    /\ UNCHANGED <<world, calls, indexCall, fillRun>>

ProbeFind ==
    /\ probe.fn = "input"
    /\ probe' = [probe EXCEPT !.fn = "findMapByName"]
                @@ [out |-> findMapByName(probe.availableMaps, probe.input)]
    /\ UNCHANGED <<world, calls, indexCall, fillRun>>

NextResolve == ProbeResolve \/ ProbeFind

SpecResolve == InitResolve /\ [][NextResolve]_vars

\* the part of an entry after its last '/'
RECURSIVE Filename(_)
Filename(e) ==
    IF \E i \in 1..Len(e) : e[i] = "/"
    THEN Filename(SubSeq(e, (CHOOSE i \in 1..Len(e) : e[i] = "/") + 1, Len(e)))
    ELSE e

WithoutJson(f) == IF endsWith(f, S_json) THEN SubSeq(f, 1, Len(f) - 5) ELSE f

\* term names entry as C10 says: it is the entry, or the entry's filename
\* with or without '.json', whatever the case of the letters
Names(term, entry) ==
    LET t == toLowerCase(term)
        f == Filename(toLowerCase(entry))
    IN  \/ t = toLowerCase(entry)
        \/ t = f
        \/ t = WithoutJson(f)

\* C10: when the term names some entry of the list, resolveMapPath returns
\* the first entry of the list that the term names
C10_ResolveReturnsFirstNamedEntry ==
    (probe.fn = "resolveMapPath"
       /\ \E i \in 1..Len(probe.availableMaps) : Names(probe.input, probe.availableMaps[i]))
    => LET first == CHOOSE i \in 1..Len(probe.availableMaps) :
                       /\ Names(probe.input, probe.availableMaps[i])
                       /\ \A j \in 1..(i - 1) : ~Names(probe.input, probe.availableMaps[j])
       IN  probe.out = Str(probe.availableMaps[first])

(***************************************************************************)
(* SpecMedia: paths that validateAssetPath rejects, given to every         *)
(* operation that loads a file: names with '..' or a leading '/' for the   *)
(* map and the three media commands, a map whose background is '../b.png'. *)
(* The probe is the command log.                                           *)
(***************************************************************************)
SoundNames == {Str(<<"s">>), Str(<<".",".","/","s">>)}
ImageNames == {Str(<<"i">>), Str(<<".",".","/","i">>)}
VideoNames == {Str(<<"v">>), Str(<<".",".","/","v">>)}

ImageOpts == {[sizePct |-> 5]}
VideoOpts == {[muted |-> TRUE, loop |-> FALSE, autoplay |-> TRUE, sizePct |-> 150]}

MediaShowInputs == {Str(<<"b">>), Str(<<".",".","/","a">>)}

NextMedia ==
    \/ \E n \in SoundNames : PlayMapSound(n, TRUE)
    \/ \E n \in ImageNames, o \in ImageOpts : ShowMapImage(n, o)
    \/ \E n \in VideoNames, o \in VideoOpts : PlayMapVideo(n, o, TRUE)
    \/ \E p \in 1..MaxCalls, i \in MediaShowInputs : ShowMap(p, i, TRUE)
    \/ \E p \in 1..MaxCalls : FetchResponds(p)
    \/ \E p \in 1..MaxCalls : BodyRead(p, TRUE)

InitMedia == InitWith({Listing}, {NoCommand}, Unobserved)

SpecMedia == InitMedia /\ [][NextMedia]_vars

\* a source inside the extension folder whose relative part passes validation
SafeSrc(src) ==
    /\ startsWith(src, extensionFolderPath \o <<"/">>)
    /\ validateAssetPath(
          Str(SubSeq(src, Len(extensionFolderPath) + 2, Len(src)))).ok

\* the relative path a play command derives from its input
MediaPath(kind, input) ==
    CASE kind = "audio" -> soundPath(input.s)
      [] kind = "image" -> imagePath(input.s)
      [] kind = "video" -> videoPath(input.s)

\* C3: a fetch is in flight only for a map name that passes
\* validateAssetPath; every source an audio, image or video element carries,
\* and the background the svg shows, passed it; and right after a play
\* command whose path fails it, what is active is what was active before
C3_NoLoadOfRejectedPath ==
    /\ \A p \in 1..MaxCalls :
          calls[p].pc \in {"fetch", "body"} => validateAssetPath(calls[p].targetMap).ok
    /\ \A el \in 1..Len(document.audios) :
          document.audios[el].src # NoSrc => SafeSrc(document.audios[el].src)
    /\ \A el \in 1..Len(document.images) :
          document.images[el].src # NoSrc => SafeSrc(document.images[el].src)
    /\ \A el \in 1..Len(document.videos) :
          document.videos[el].src # NoSrc => SafeSrc(document.videos[el].src)
    /\ document.svg.image # <<>> =>
          /\ validateAssetPath(
                Get(Get(document.svg.data, "backgroundImage"), "file")).ok
          /\ validateAssetPath(Str(document.svg.image[1].href)).ok
    /\ (probe.op = "play"
          /\ ~validateAssetPath(Str(MediaPath(probe.kind, probe.input))).ok)
       => Active(Cur, probe.kind) = probe.before

\* a video command whose path is rejected has just run with the window open
\* and started nothing, after initMap was called with the map whose
\* background is '../b.png' and attached no background
C3_Witness ==
    /\ probe.op = "play" /\ probe.kind = "video" /\ probe.window
    /\ ~validateAssetPath(Str(videoPath(probe.input.s))).ok
    /\ Active(Cur, "video") = {}
    /\ document.initMapArg = MapDoc(2)
    /\ document.mapWindow /\ document.svg.image = <<>>
    /\ extensionState.lastError = Error("Invalid file path", <<>>)

(***************************************************************************)
(* SpecPlay: the media commands on their own.  The window is opened by a   *)
(* showMap whose map name is rejected and closed by its Close button; the  *)
(* probe is the command log.                                               *)
(***************************************************************************)
PlaySoundNames == {Str(<<"s">>), Str(<<"T",".","o","g","g">>)}
PlayImageNames == {Str(<<"i">>), Str(<<"i","m","a","g","e","s","/","j",".","g","i","f">>)}
PlayVideoNames == {Str(<<"v">>), Str(<<"w",".","w","e","b","m">>)}
PlayShowInputs == {Str(<<".",".","/","a">>)}

NextPlay ==
    \/ \E n \in PlaySoundNames, allowed \in BOOLEAN : PlayMapSound(n, allowed)
    \/ StopSound
    \/ \E n \in PlayImageNames, o \in ImageOpts : ShowMapImage(n, o)
    \/ StopImage
    \/ \E n \in PlayVideoNames, o \in VideoOpts, allowed \in BOOLEAN : PlayMapVideo(n, o, allowed)
    \/ StopVideo
    \/ ImageCloseClick
    \/ VideoCloseClick
    \/ CloseWindow
    \/ \E p \in 1..MaxCalls, i \in PlayShowInputs : ShowMap(p, i, TRUE)
    \/ \E el \in 1..MaxElements : AudioPlays(el)
    \/ \E el \in 1..MaxElements, error \in BOOLEAN : AudioEnds(el, error)
    \/ \E el \in 1..MaxElements : VideoEnds(el)
    \/ WindowResize

InitPlay == InitWith({Listing}, {NoCommand}, Unobserved)

SpecPlay == InitPlay /\ [][NextPlay]_vars

\* the URL a play command gives its element
SoundUrl(n) == extensionFolderPath \o <<"/">> \o soundPath(n.s)
ImageUrl(n) == extensionFolderPath \o <<"/">> \o imagePath(n.s)
VideoUrl(n) == extensionFolderPath \o <<"/">> \o videoPath(n.s)

\* C5: right after a play command that starts its resource B, exactly one
\* element of the kind is active: the one the extension refers to, with B as
\* its source.  Whatever was active before is no longer: the audio restarts
\* from position 0, no other video plays
C5_PlayReplacesActiveResource ==
    /\ (probe.op = "play" /\ probe.kind = "audio" /\ probe.allowed)
        => /\ Active(Cur, "audio") =
                 {[el |-> mapAudioElement, src |-> SoundUrl(probe.input)]}
           /\ document.audios[mapAudioElement].currentTime = 0
    /\ (probe.op = "play" /\ probe.kind = "image" /\ probe.window)
        => Active(Cur, "image") =
                 {[el |-> mapImageElement, src |-> ImageUrl(probe.input)]}
    /\ (probe.op = "play" /\ probe.kind = "video" /\ probe.window)
        => /\ Active(Cur, "video") =
                 {[el |-> mapVideoElement, src |-> VideoUrl(probe.input)]}
           /\ \A el \in 1..Len(document.videos) :
                 document.videos[el].playing <=> (el = mapVideoElement /\ probe.allowed)

\* play(A) then play(B): a video command found another video active, and now
\* its own video is the active one
C5_Witness ==
    /\ probe.op = "play" /\ probe.kind = "video"
    /\ \E a \in probe.before : a.src # VideoUrl(probe.input)
    /\ \E b \in Active(Cur, "video") : b.src = VideoUrl(probe.input)

\* C6: of each kind at most one element is attached to the page (the audio
\* to the body, the image and the video to the map window), and at most one
\* is active
C6_OneElementPerKind ==
    /\ Cardinality({el \in 1..Len(document.audios) : document.audios[el].inBody}) <= 1
    /\ Cardinality({el \in 1..Len(document.images) : document.images[el].attached}) <= 1
    /\ Cardinality({el \in 1..Len(document.videos) : document.videos[el].attached}) <= 1
    /\ Cardinality(ActiveAudios(Cur)) <= 1
    /\ Cardinality(ActiveImages(Cur)) <= 1
    /\ Cardinality(ActiveVideos(Cur)) <= 1
    /\ \A el \in 1..Len(document.videos) :
          document.videos[el].playing => document.videos[el].attached

\* the window was closed and reopened: a second image and a second video
\* element are active, the first ones are detached, and the audio plays on
C6_Witness ==
    /\ Len(document.images) = 2 /\ Len(document.videos) = 2
    /\ ~document.images[1].attached /\ ~document.videos[1].attached
    /\ ActiveImages(Cur) = {2} /\ ActiveVideos(Cur) = {2}
    /\ ActiveAudios(Cur) = {1}

\* a kind is Idle when none of its elements is active or playing
IdleAudio(W) == ActiveAudios(W) = {}
IdleImage(W) == ActiveImages(W) = {}
IdleVideo(W) ==
    /\ ActiveVideos(W) = {}
    /\ \A el \in 1..Len(W.document.videos) : ~W.document.videos[el].playing

\* C7: in every reachable state (nothing ever started, something active,
\* just stopped, window torn down) a stop leaves its kind Idle and a second
\* stop changes nothing
C7_StopIdempotent ==
    /\ LET W == stopCurrentMapAudio(Cur) IN
         IdleAudio(W) /\ stopCurrentMapAudio(W) = W
    /\ LET W == stopCurrentMapImage(Cur) IN
         IdleImage(W) /\ stopCurrentMapImage(W) = W
    /\ LET W == stopCurrentMapVideo(Cur) IN
         IdleVideo(W) /\ stopCurrentMapVideo(W) = W
    /\ (probe.op = "stop" /\ probe.kind = "audio")
          => IdleAudio(Cur) /\ stopCurrentMapAudio(Cur) = Cur
    /\ (probe.op = "stop" /\ probe.kind = "image")
          => IdleImage(Cur) /\ stopCurrentMapImage(Cur) = Cur
    /\ (probe.op = "stop" /\ probe.kind = "video")
          => IdleVideo(Cur) /\ stopCurrentMapVideo(Cur) = Cur

\* the video was stopped after the window that held it was torn down: the
\* stale reference has been dropped and nothing was active
C7_Witness ==
    /\ probe.op = "stop" /\ probe.kind = "video" /\ probe.before = {}
    /\ ~document.mapWindow
    /\ Len(document.videos) > 0 /\ mapVideoElement = NoElement

\* C8 as stated: right after a stop on an active resource the kind is Idle,
\* the resource is paused (audio, video) and its source is cleared (audio,
\* video, image), and the Close button of the kind is hidden
C8_StopClearsSource ==
    /\ (probe.op = "stop" /\ probe.kind = "audio")
        => \A b \in probe.before :
              /\ IdleAudio(Cur)
              /\ ~document.audios[b.el].playing
              /\ document.audios[b.el].src = NoSrc
    /\ (probe.op = "stop" /\ probe.kind = "image")
        => \A b \in probe.before :
              /\ IdleImage(Cur)
              /\ document.images[b.el].src = NoSrc
              /\ document.imageBtn.display = "none"
    /\ (probe.op = "stop" /\ probe.kind = "video")
        => \A b \in probe.before :
              /\ IdleVideo(Cur)
              /\ ~document.videos[b.el].playing
              /\ document.videos[b.el].src = NoSrc
              /\ document.videoBtn.display = "none"

\* C8 amended: right after a stop on an active resource the kind is Idle; the
\* video is paused, hidden and without source, the image is hidden and
\* without source, and their Close buttons are hidden; the audio, which has
\* no Close button, is paused and rewound to position 0 and keeps its source
C8_StopReleasesAudioKeepsSource ==
    /\ (probe.op = "stop" /\ probe.kind = "audio")
        => \A b \in probe.before :
              /\ IdleAudio(Cur)
              /\ ~document.audios[b.el].playing
              /\ document.audios[b.el].currentTime = 0
              /\ document.audios[b.el].src = b.src
              /\ b.src # NoSrc
    /\ (probe.op = "stop" /\ probe.kind = "image")
        => \A b \in probe.before :
              /\ IdleImage(Cur)
              /\ document.images[b.el].src = NoSrc
              /\ document.images[b.el].display = "none"
              /\ document.imageBtn.display = "none"
    /\ (probe.op = "stop" /\ probe.kind = "video")
        => \A b \in probe.before :
              /\ IdleVideo(Cur)
              /\ ~document.videos[b.el].playing
              /\ document.videos[b.el].src = NoSrc
              /\ document.videos[b.el].display = "none"
              /\ document.videoBtn.display = "none"

\* an active video has just been stopped, while the image is hidden without
\* a source and the audio is paused at position 0 with its source
C8_Witness ==
    /\ probe.op = "stop" /\ probe.kind = "video" /\ probe.before # {}
    /\ imageAttached(Cur, mapImageElement)
    /\ document.images[mapImageElement].src = NoSrc
    /\ document.imageBtn.attached /\ document.imageBtn.display = "none"
    /\ audioInBody(Cur, mapAudioElement)
    /\ document.audios[mapAudioElement].src # NoSrc
    /\ ~document.audios[mapAudioElement].playing
    /\ document.audios[mapAudioElement].currentTime = 0

(***************************************************************************)
(* SpecFallback: showMap with one term, put together from at most          *)
(* MaxPieces pieces, that is in the listing or not.  The probe holds the   *)
(* term for the whole run.                                                 *)
(***************************************************************************)
FallbackPieces ==
    {<<"x">>, <<"a">>, <<"n","/">>, S_json, <<".","J","S","O","N">>, <<" ">>}

InitFallback ==
    InitWith({Listing},
             {[fn |-> "term", input |-> Str(t)] :
                 t \in PiecedStrings(FallbackPieces, MaxPieces)},
             NoToast)

ShowTerm(p) == probe.fn = "term" /\ ShowMap(p, probe.input, TRUE)

NextFallback ==
    \/ \E p \in 1..MaxCalls : ShowTerm(p)
    \/ \E p \in 1..MaxCalls : FetchResponds(p)
    \/ \E p \in 1..MaxCalls : BodyRead(p, TRUE)

SpecFallback == InitFallback /\ [][NextFallback]_vars

\* the term as a direct path: '.json' appended unless the term ends in
\* '.json' already, in whatever letter case
DirectPath(term) ==
    IF endsWith(toLowerCase(term), S_json) THEN term ELSE term \o S_json

\* C11: when the (trimmed, non-empty) term matches no entry of the listing,
\* resolveMapPath returns the term with '.json' appended unless it ends in
\* '.json' already, and that is the path showMap loads; when the host does
\* not serve that path the call ends with the HTTP error recorded and shown,
\* and nothing is cached or rendered
C11_FallbackPathAndHttpError ==
    (probe.fn = "term" /\ trim(probe.input.s) # <<>>
        /\ findMapByName(extensionState.availableMaps, trim(probe.input.s)) = Null)
    => \E direct \in {DirectPath(trim(probe.input.s))} :
        /\ resolveMapPath(extensionState.availableMaps, probe.input.s) = Str(direct)
        /\ \A p \in 1..MaxCalls :
              calls[p].pc # "idle" => calls[p].targetMap = Str(direct)
        /\ ServerFile(direct).status = 404 =>
              /\ mapCache = <<>>
              /\ document.svg = EmptySvg
              /\ document.initMapArg = Null
              /\ ~extensionState.isMapLoaded
              /\ extensionState.currentLoadedMap = Null
              /\ \A p \in 1..MaxCalls : calls[p].pc # "body"
              /\ (document.mapWindow /\ \A p \in 1..MaxCalls : calls[p].pc = "idle")
                    => /\ extensionState.lastError = Error("HTTP", 404)
                       /\ toastr = [level |-> "error", msg |-> "HTTP"]

\* showMap('x') has ended: 'x.json' was requested and the host answered 404
C11_Witness ==
    /\ probe.fn = "term" /\ probe.input = Str(<<"x">>)
    /\ document.mapWindow
    /\ \A p \in 1..MaxCalls : calls[p].pc = "idle"
    /\ extensionState.lastError = Error("HTTP", 404)
    /\ mapCache = <<>>

(***************************************************************************)
(* SpecDiscover: the Refresh button, the index request and its outcomes,   *)
(* the dropdown, and showMap of the selected map.  The probe is the        *)
(* command log.                                                            *)
(***************************************************************************)
\* what index.json may decode to; Undefined stands for a body that is not JSON
IndexBodies ==
    {Undefined, Null, Arr(<<>>), Obj([maps |-> Arr(<<>>)]),
     Obj([version |-> Num(1, 1)]),
     Arr(<<Str(MapName(2))>>),
     Obj([maps |-> Arr(<<Str(MapName(1)), Str(N_bad)>>)])}

DiscoverShowInputs == {ClickEvent, Str(<<"a">>)}

NextDiscover ==
    \/ Refresh
    \/ \E ok \in BOOLEAN : IndexResponds(ok)
    \/ IndexFetchFails
    \/ IndexTimeout
    \/ \E index \in IndexBodies : IndexBodyRead(index)
    \/ \E i \in 1..NumMaps : SelectChange(i)
    \/ \E p \in 1..MaxCalls, i \in DiscoverShowInputs : ShowMap(p, i, TRUE)
    \/ \E p \in 1..MaxCalls : FetchResponds(p)
    \/ \E p \in 1..MaxCalls : BodyRead(p, TRUE)

SpecDiscover == Init /\ [][NextDiscover]_vars

\* the discovery the last step completed met a listing failure
ListingFailed ==
    /\ probe.op = "discover"
    /\ \/ probe.kind \in {"timeout", "network", "http", "parse"}
       \/ probe.kind = "json" /\ probe.input = Arr(<<>>)

\* C12: a discovery that meets a listing failure (timeout, network error,
\* response that is not ok, body that is not JSON, empty listing) throws
\* nothing: tryLoadMapsFromIndex returned, the caller went on to fill the
\* dropdown and to report success, and both the listing returned (the
\* dropdown's options) and availableMaps are [defaultMap]
C12_DiscoveryFallsBackToDefault ==
    /\ ListingFailed =>
          /\ probe.allowed
          /\ extensionState.availableMaps = << DEFAULT_MAP >>
          /\ document.selectOptions = << DEFAULT_MAP >>
          /\ extensionState.currentLoadedMap = Str(DEFAULT_MAP)
          /\ indexCall.pc = "idle"
          /\ toastr = [level |-> "success", msg |-> "Maps refreshed!"]
    /\ indexCall.pc = "idle" => extensionState.availableMaps # <<>>

\* the index request timed out after a map of the first listing was loaded
C12_Witness ==
    /\ probe.op = "discover" /\ probe.kind = "timeout"
    /\ extensionState.availableMaps = << DEFAULT_MAP >>
    /\ document.svg.data = MapDoc(1)
    /\ mapCache = <<>>

(***************************************************************************)
(* SpecCommands: the seven slash commands, given the arguments the host    *)
(* passes to a handler (named arguments and the unnamed value), and the    *)
(* events that end a pending showMap.  The probe is the command log.       *)
(***************************************************************************)
EmptyObject == [t |-> "object"]

\* no argument, a blank value with the name in args, a path that is rejected
MediaArguments ==
    {[args |-> EmptyObject, value |-> Undefined],
     [args |-> Arr(<<Str(<<"x">>)>>), value |-> Str(<<" ">>)],
     [args |-> Str(<<".",".","/","s">>), value |-> Undefined]}

\* a rejected path, a name the host does not serve, a map of the listing
ShowmapArguments ==
    {[args |-> Str(<<".",".","/","s">>), value |-> Undefined],
     [args |-> EmptyObject, value |-> Str(<<"x">>)],
     [args |-> EmptyObject, value |-> Str(<<"b">>)]}

NextCommands ==
    \/ \E p \in 1..MaxCalls, c \in ShowmapArguments : CmdShowmap(p, c.args, c.value, TRUE)
    \/ \E p \in 1..MaxCalls : FetchResponds(p)
    \/ \E p \in 1..MaxCalls : FetchFails(p)
    \/ \E p \in 1..MaxCalls : BodyRead(p, TRUE)
    \/ \E p \in 1..MaxCalls : FetchTimeout(p)
    \/ \E c \in MediaArguments, allowed \in BOOLEAN : CmdShowmapSound(c.args, c.value, allowed)
    \/ StopSound
    \/ \E c \in MediaArguments : CmdShowmapImage(c.args, c.value)
    \/ StopImage
    \/ \E c \in MediaArguments, allowed \in BOOLEAN : CmdShowmapVideo(c.args, c.value, allowed)
    \/ StopVideo

SpecCommands == Init /\ [][NextCommands]_vars

\* the play command the last step ran was given a name whose path
\* validateAssetPath rejects / accepts
PlayRejected ==
    /\ probe.op = "play" /\ probe.input.s # <<>>
    /\ ~validateAssetPath(Str(MediaPath(probe.kind, probe.input))).ok
PlayAccepted ==
    /\ probe.op = "play" /\ probe.input.s # <<>>
    /\ validateAssetPath(Str(MediaPath(probe.kind, probe.input))).ok

MaxShapes == 2

S_go == <<"/","g","o">>
S_0a0 == <<"#","0","a","0">>

\* two shapes with the same id and a 3- and a 6-digit color, a shape without
\* color, with a color that is no hex color, with an empty id, with a
\* number as id, with a number as script, and a shape that is no object
ShapeChoices ==
    {Shape(<<"z","1">>, <<"#","F","0","0">>),
     Shape(<<"z","1">>, <<"#","0","0","f","f","0","0">>),
     Obj([id |-> Str(<<"z","2">>), path |-> Str(S_M), script |-> Str(S_go)]),
     Shape(<<"z","3">>, <<"r","e","d">>),
     Shape(<<>>, S_0a0),
     Obj([id |-> Num(7, 1), path |-> Str(S_M), color |-> Str(S_0a0), script |-> Str(S_go)]),
     Obj([id |-> Str(<<"z","4">>), path |-> Str(S_M), color |-> Str(S_0a0), script |-> Num(1, 1)]),
     Null}

FileChoices == {Str(<<"a">> \o S_png), Str(<<>>), Num(1, 1)}
WidthChoices == {Str(<<"8","0","0">>), Num(4, 1), Str(<<"x">>), Num(0, 1)}
HeightChoices == {Num(3, 1), Str(<<" ","3"," ">>), Infinity}

BackgroundChoices ==
    {Obj([file |-> f, width |-> w, height |-> h]) :
        f \in FileChoices, w \in WidthChoices, h \in HeightChoices}
    \cup {Obj([width |-> w, height |-> h]) : w \in WidthChoices, h \in HeightChoices}
    \cup {Undefined}

DocumentChoices ==
    {Obj([backgroundImage |-> bg, shapes |-> Arr(l)]) :
        bg \in BackgroundChoices, l \in Lists(ShapeChoices, MaxShapes)}
    \cup {Obj([backgroundImage |-> bg]) : bg \in BackgroundChoices}
    \cup {Null, Str(<<"x">>)}

InitValidate ==
    InitWith({Listing}, {[fn |-> "input", input |-> d] : d \in DocumentChoices}, NoToast)

ProbeValidateMapData == Probed("validateMapData", validateMapData(probe.input))

NextValidate == ProbeValidateMapData

SpecValidate == InitValidate /\ [][NextValidate]_vars

NonEmptyString(v) == v.t = "string" /\ v.s # <<>>

\* '#' and three or six hex digits
HexColor(v) ==
    /\ v.t = "string" /\ Len(v.s) \in {4, 7} /\ v.s[1] = "#"
    /\ \A i \in 2..Len(v.s) : IsHexDigit(v.s[i])

FinitePositive(v) == Number(v).k = "finite" /\ Number(v).num > 0

\* the shape has every field but (perhaps) color as the schema asks
ShapeOtherwiseValid(sh) ==
    /\ sh.t = "object"
    /\ NonEmptyString(Get(sh, "id"))
    /\ NonEmptyString(Get(sh, "path"))
    /\ NonEmptyString(Get(sh, "script"))

ValidShape(sh) == ShapeOtherwiseValid(sh) /\ HexColor(Get(sh, "color"))

\* the document has everything but (perhaps) the background file and the
\* colors of its shapes as the schema asks
SizedWithShapes(d) ==
    /\ d.t = "object"
    /\ Get(d, "backgroundImage").t = "object"
    /\ FinitePositive(Get(Get(d, "backgroundImage"), "width"))
    /\ FinitePositive(Get(Get(d, "backgroundImage"), "height"))
    /\ Get(d, "shapes").t = "array"
    /\ Get(d, "shapes").items # <<>>

ValidDocument(d) ==
    /\ SizedWithShapes(d)
    /\ Get(Get(d, "backgroundImage"), "file").t = "string"
    /\ \A i \in DOMAIN Get(d, "shapes").items : ValidShape(Get(d, "shapes").items[i])

\* C15: validateMapData answers valid with no errors for every document
\* that has a string background file, a width and a height that coerce to
\* finite positive numbers, and a non-empty shapes array of shapes with
\* non-empty string id, path and script and a 3- or 6-digit hex color
C15_ValidDocumentsPass ==
    (probe.fn = "validateMapData" /\ ValidDocument(probe.input))
        => probe.out = [valid |-> TRUE, errors |-> <<>>]

\* a document with a width given as a string and two shapes, one with a
\* 3-digit and one with a 6-digit color, has been validated
C15_Witness ==
    /\ probe.fn = "validateMapData" /\ ValidDocument(probe.input)
    /\ probe.out.valid
    /\ Get(Get(probe.input, "backgroundImage"), "width").t = "string"
    /\ \E i, j \in DOMAIN probe.input.shapes.items :
          /\ Len(probe.input.shapes.items[i].color.s) = 4
          /\ Len(probe.input.shapes.items[j].color.s) = 7

\* the document is valid but for a background without file and one shape,
\* at position i, without color
LacksFileAndColorAt(d, i) ==
    /\ SizedWithShapes(d)
    /\ "file" \notin DOMAIN Get(d, "backgroundImage")
    /\ i \in DOMAIN Get(d, "shapes").items
    /\ ShapeOtherwiseValid(Get(d, "shapes").items[i])
    /\ "color" \notin DOMAIN Get(d, "shapes").items[i]
    /\ \A j \in DOMAIN Get(d, "shapes").items \ {i} : ValidShape(Get(d, "shapes").items[j])

Reported(validation) == {validation.errors[k] : k \in DOMAIN validation.errors}

\* C16: a document that is valid but for a missing backgroundImage.file and
\* one shape without color gets exactly two errors, one naming
\* backgroundImage.file and one naming the color of that shape by its index
C16_ExactlyTwoErrors ==
    \A i \in 1..(MaxShapes + 1) :
        (probe.fn = "validateMapData" /\ LacksFileAndColorAt(probe.input, i))
            => /\ Len(probe.out.errors) = 2
               /\ Err("backgroundImage.file: required and must be a string")
                     \in Reported(probe.out)
               /\ ShapeErr("Shape[i].color: invalid color", i - 1)
                     \in Reported(probe.out)

(***************************************************************************)
(* SpecDocs: maps are shown one after another, among them a document with  *)
(* an empty background file, one with two shapes of the same id and one    *)
(* with a width below 1.                                                   *)
(***************************************************************************)
DocShowInputs ==
    {Str(<<"a">>), Str(<<"b">>), Str(<<"e","m","p">>), Str(<<"d","u","p">>),
     Str(<<"f","r","c">>), ClickEvent}

NextDocs ==
    \/ \E p \in 1..MaxCalls, i \in DocShowInputs : ShowMap(p, i, TRUE)
    \/ \E p \in 1..MaxCalls : FetchResponds(p)
    \/ \E p \in 1..MaxCalls : BodyRead(p, TRUE)
    \/ CloseWindow

SpecDocs == Init /\ [][NextDocs]_vars

BackgroundFile(d) == Get(Get(d, "backgroundImage"), "file")

\* C17: a document whose backgroundImage.file is not a non-empty string is
\* rejected by validateMapData: its load ends with a validation error, and
\* no such document is in the cache or has been passed to initMap
C17_EmptyBackgroundFileRejected ==
    /\ \A i \in 1..Len(mapCache) : NonEmptyString(BackgroundFile(mapCache[i].value))
    /\ document.initMapArg # Null => NonEmptyString(BackgroundFile(document.initMapArg))
    /\ (probe.op = "load" /\ ServerFile(probe.input.s).json
          /\ ~NonEmptyString(BackgroundFile(ServerFile(probe.input.s).data)))
       => extensionState.lastError.kind = "Validation error"

ShapeIds(d) == [i \in DOMAIN Get(d, "shapes").items |-> Get(Get(d, "shapes").items[i], "id")]

IdsUnique(ids) ==
    /\ \A i \in DOMAIN ids : NonEmptyString(ids[i])
    /\ \A i, j \in DOMAIN ids : i # j => ids[i] # ids[j]

\* C18: in every document that is cached or rendered the shape ids are
\* non-empty strings, pairwise distinct, and no two zones of the surface
\* have the same id
C18_ShapeIdsUnique ==
    /\ \A i \in 1..Len(mapCache) : IdsUnique(ShapeIds(mapCache[i].value))
    /\ document.svg.data # Null => IdsUnique(ShapeIds(document.svg.data))
    /\ IdsUnique([z \in DOMAIN document.svg.zones |-> document.svg.zones[z].id])

\* the zones initMap creates for a document, in the order of its shapes
ZonesOf(d) ==
    [i \in DOMAIN Get(d, "shapes").items |-> createInteractivePath(Get(d, "shapes").items[i])]

\* C20: when initMap has succeeded, the surface holds the background and one
\* zone per shape of the document initMap was called with, in the order of
\* the shapes, and nothing else, whatever was rendered before
C20_OneZonePerShape ==
    (extensionState.isMapLoaded /\ document.mapWindow)
        => /\ document.svg.zones = ZonesOf(document.initMapArg)
           /\ Len(document.svg.image) = 1
           /\ document.svg.data = document.initMapArg

\* the document with two shapes is on the surface, rendered after the
\* document of map a (two other shapes)
C20_Witness ==
    /\ extensionState.isMapLoaded /\ document.mapWindow
    /\ document.initMapArg = SameIdDoc
    /\ Len(document.svg.zones) = 2
    /\ cacheHas(mapCache, MapName(1))

(***************************************************************************)
(* SpecHover: the pointer enters a zone whose color is '#' and three hex   *)
(* digits, and a zone whose color has each of these digits twice.          *)
(***************************************************************************)
HexDigitChars ==
    {"0","1","2","3","4","5","6","7","8","9",
     "a","b","c","d","e","f","A","B","C","D","E","F"}

InitHover ==
    InitWith({Listing},
             {[fn |-> "input", input |-> Str(<<"#", a, b, c>>)] :
                 a \in HexDigitChars, b \in HexDigitChars, c \in HexDigitChars},
             NoToast)

\* '#abc' as '#aabbcc'
Doubled(hex) == <<"#", hex[2], hex[2], hex[3], hex[3], hex[4], hex[4]>>

\* the surface with one zone, of the given color
WithZone(W, color) ==
    [W EXCEPT !.document.svg.zones =
        << createInteractivePath(Shape(<<"z">>, color)) >>]

\* the fill of the zone after mouseover
HoverFill(W, color) == handleMouseOver(WithZone(W, color), 1).document.svg.zones[1].fill

ProbeHover ==
    Probed("handleMouseOver",
           [short |-> HoverFill(Cur, probe.input.s),
            long |-> HoverFill(Cur, Doubled(probe.input.s))])

NextHover == ProbeHover

SpecHover == InitHover /\ [][NextHover]_vars

\* C19: for all hex digits a, b, c the pointer entering a zone of color
\* '#abc' computes the RGB triple it computes for a zone of color '#aabbcc';
\* '#F00' gives 255, 0, 0
C19_ShortHexDoublesDigits ==
    probe.fn = "handleMouseOver" =>
        /\ probe.out.short = probe.out.long
        /\ probe.input = Str(<<"#","F","0","0">>)
              => probe.out.short = [R |-> 255, G |-> 0, B |-> 0]

\* the pointer has entered zones of color '#aB9' and '#aaBB99'
C19_Witness ==
    /\ probe.fn = "handleMouseOver"
    /\ probe.input = Str(<<"#","a","B","9">>)
    /\ probe.out.short = [R |-> 170, G |-> 187, B |-> 153]
    /\ probe.out.long = [R |-> 170, G |-> 187, B |-> 153]

\* the number validateMapData accepted for a dimension is the integer n
NumberIs(v, n) == Number(v).k = "finite" /\ Number(v).num = n * Number(v).den

\* C21: when initMap has succeeded for a document, the viewBox is
\* '0 0 W H' with W and H the width and height validateMapData accepted
\* (Number(width), Number(height)) for that document
C21_ViewBoxIsDeclaredSize ==
    (extensionState.isMapLoaded /\ document.mapWindow)
        => /\ document.svg.viewBox.set
           /\ NumberIs(Get(Get(document.initMapArg, "backgroundImage"), "width"),
                       document.svg.viewBox.width)
           /\ NumberIs(Get(Get(document.initMapArg, "backgroundImage"), "height"),
                       document.svg.viewBox.height)

(***************************************************************************)
(* SpecZones: maps are shown and the window closed while the pointer       *)
(* enters, leaves and clicks the zones on the surface.                     *)
(***************************************************************************)
ZoneShowInputs == {Str(<<"a">>), Str(<<"d","u","p">>), Str(<<"b">>)}

ExecutorOutcomes == {"done", "throws", "rejects"}

NextZones ==
    \/ \E p \in 1..MaxCalls, i \in ZoneShowInputs : ShowMap(p, i, TRUE)
    \/ \E p \in 1..MaxCalls : FetchResponds(p)
    \/ \E p \in 1..MaxCalls : BodyRead(p, TRUE)
    \/ CloseWindow
    \/ \E z \in 1..Len(document.svg.zones) : MouseOver(z)
    \/ \E z \in 1..Len(document.svg.zones) : MouseOut(z)
    \/ \E z \in 1..Len(document.svg.zones), outcome \in ExecutorOutcomes : Click(z, outcome)

SpecZones == Init /\ [][NextZones]_vars

\* C22: a click on a zone has handed the script of that zone, unchanged, to
\* executeSlashCommands, through the one click listener of the zone, and
\* when the execution failed the user has been told
C22_ClickRunsScriptAndReportsFailure ==
    probe.op = "click" =>
        /\ document.executed = probe.input
        /\ \E z \in 1..Len(document.svg.zones) :
              /\ document.svg.zones[z].script = probe.input
              /\ Cardinality({l \in document.svg.zones[z].listeners : l.type = "click"}) = 1
        /\ probe.kind \in {"throws", "rejects"}
              => toastr = [level |-> "error", msg |-> "Command error"]

(***************************************************************************)
(* SpecSound: maps that declare an ambient sound are shown; the browser    *)
(* may refuse to start the sound, and the audio file may fail to load.     *)
(***************************************************************************)
SoundShowInputs == {Str(<<"a">>), Str(<<"c">>), Str(<<"s","n","d">>)}

NextSound ==
    \/ \E p \in 1..MaxCalls, i \in SoundShowInputs, allowed \in BOOLEAN : ShowMap(p, i, allowed)
    \/ \E p \in 1..MaxCalls : FetchResponds(p)
    \/ \E p \in 1..MaxCalls, allowed \in BOOLEAN : BodyRead(p, allowed)
    \/ \E el \in 1..MaxElements : AudioPlays(el)
    \/ \E el \in 1..MaxElements, error \in BOOLEAN : AudioEnds(el, error)

SpecSound == Init /\ [][NextSound]_vars

\* C23: the load of a document that declares mapSound ends with the
\* document cached and rendered, the success message shown and no error
\* recorded, whether the sound started or not (path rejected, playback
\* refused); an audio file error afterwards leaves the map rendered
C23_SoundFailureLeavesMap ==
    /\ (probe.op = "load" /\ truthy(Get(ServerFile(probe.input.s).data, "mapSound")))
          => /\ cacheHas(mapCache, probe.input.s)
             /\ cacheGet(mapCache, probe.input.s) = ServerFile(probe.input.s).data
             /\ document.svg.data = ServerFile(probe.input.s).data
             /\ extensionState.isMapLoaded
             /\ extensionState.currentLoadedMap = probe.input
             /\ extensionState.lastError = Null
             /\ toastr = [level |-> "success", msg |-> "Map loaded"]
    /\ toastr.msg \in {"Map audio file error", "Could not start map sound playback",
                      "Audio error"}
          => extensionState.isMapLoaded /\ extensionState.lastError = Null

\* the document of map c, whose mapSound '../s' is rejected, has been
\* loaded and rendered without any audio, after the document of map a was
\* rendered with a sound the browser refused to start
C23_Witness ==
    /\ probe.op = "load" /\ probe.input = Str(MapName(3))
    /\ document.svg.data = MapDoc(3)
    /\ cacheHas(mapCache, MapName(1))
    /\ \A el \in 1..Len(document.audios) : ~document.audios[el].playing
    /\ document.audios # <<>>

\* the cache holds the document d
Cached(cache, d) == \E i \in 1..Len(cache) : cache[i].value = d

\* C24: every step that puts a key into the cache ends a call that had
\* fetched that key and was reading its body, and the document inserted is
\* the served one and passes validateMapData; every step that hands a
\* document to initMap or renders it leaves that document in the cache
C24_FetchValidateCacheRender ==
    [][ /\ \A i \in 1..Len(mapCache') :
              ~cacheHas(mapCache, mapCache'[i].key)
              => /\ \E p \in 1..MaxCalls :
                       /\ calls[p].pc = "body" /\ calls'[p].pc = "idle"
                       /\ calls[p].targetMap = Str(mapCache'[i].key)
                 /\ ServerFile(mapCache'[i].key).json
                 /\ mapCache'[i].value = ServerFile(mapCache'[i].key).data
                 /\ validateMapData(mapCache'[i].value).valid
        /\ document'.initMapArg # document.initMapArg
              => Cached(mapCache', document'.initMapArg)
        /\ (document'.svg.data # document.svg.data /\ document'.svg.data # Null)
              => Cached(mapCache', document'.svg.data)
      ]_vars

\* the document of map a is cached and rendered by the step that ended its
\* load, after a load that ended on a body that is not JSON
C24_Witness ==
    /\ probe.op = "load" /\ probe.allowed /\ probe.input = Str(MapName(1))
    /\ document.svg.data = MapDoc(1)
    /\ cacheHas(mapCache, MapName(1))
    /\ extensionState.lastError = Error("JSON parse error", <<>>)

\* C25: a step drops no cache entry but the oldest; a call starts a fetch
\* only for a key that is not cached (a hit fetches nothing); the cache
\* changes in no step but the one that ends a body read, so a hit leaves
\* the order of the entries, and the entry evicted next, as they were; and
\* a new key inserted into a full cache replaces the oldest entry and goes
\* last
C25_StrictInsertionOrder ==
    [][ /\ \A i \in 2..Len(mapCache) : cacheHas(mapCache', mapCache[i].key)
        /\ \A p \in 1..MaxCalls :
              (calls[p].pc = "idle" /\ calls'[p].pc = "fetch")
              => ~cacheHas(mapCache, calls'[p].targetMap.s)
        /\ (\A p \in 1..MaxCalls : ~(calls[p].pc = "body" /\ calls'[p].pc = "idle"))
              => mapCache' = mapCache
        /\ \A i \in 1..Len(mapCache') :
              (Len(mapCache) >= maxMapCache /\ ~cacheHas(mapCache, mapCache'[i].key))
              => mapCache' = Append(Tail(mapCache), mapCache'[i])
      ]_vars

\* the cache is full, the first document loaded has been evicted, and the
\* oldest entry left has been shown again from the cache
C25_Witness ==
    /\ Len(mapCache) = maxMapCache
    /\ fillRun.distinct /\ Len(fillRun.keys) = maxMapCache + 1
    /\ ~cacheHas(mapCache, fillRun.keys[1])
    /\ document.initMapArg = mapCache[1].value
    /\ extensionState.currentLoadedMap = Str(mapCache[1].key)

\* the three listeners createInteractivePath stores on a path
StoredListeners(path) ==
    {Listener("click", path._boundClick),
     Listener("mouseover", path._boundMouseOver),
     Listener("mouseout", path._boundMouseOut)}

\* C26: no listener is left on a path that was removed from the surface;
\* the listeners of every path on the surface are the three stored on it;
\* and after clearMap (the window closed, or a rendering that failed) the
\* surface has no path and isMapLoaded is false
C26_NoStaleListeners ==
    /\ document.stale = {}
    /\ \A z \in 1..Len(document.svg.zones) :
          /\ document.svg.zones[z].listeners = StoredListeners(document.svg.zones[z])
          /\ Cardinality(document.svg.zones[z].listeners) = 3
    /\ ~document.mapWindow => document.svg.zones = <<>> /\ ~extensionState.isMapLoaded
    /\ ~extensionState.isMapLoaded => document.svg.zones = <<>>

\* map a is on the surface, rendered over the document with two equal ids,
\* and one of its zones has been clicked
C26_Witness ==
    /\ document.svg.data = MapDoc(1)
    /\ cacheKeys(mapCache) = << N_dup, MapName(1) >>
    /\ probe.op = "click" /\ probe.kind = "throws"
    /\ Len(document.svg.zones) = 2

(***************************************************************************)
(* The window's resize listener.                                           *)
(***************************************************************************)
\* C27: however many videos were played or stopped and however often the
\* window was closed and reopened, the window carries at most one video
\* resize listener, and it carries one exactly when the flag
\* _mapVideoResizeListener is set.
C27_ResizeListenerOnce ==
    /\ document.resizeListeners <= 1
    /\ document._mapVideoResizeListener <=> document.resizeListeners = 1

\* a video was played, the window was closed and opened again, and a video
\* plays in the reopened window: the second element, one listener
C27_Witness ==
    /\ document.resizeListeners = 1
    /\ document.mapWindow
    /\ mapVideoElement = 2
    /\ Len(document.videos) = 2
    /\ document.videos[2].src # NoSrc


(***************************************************************************)
(* The three media kinds side by side.                                     *)
(***************************************************************************)
\* what the page holds of each kind: the module's element and close
\* control, and the elements with their source, visibility and playback
AudioState == << mapAudioElement, document.audios >>
ImageState == << mapImageElement, mapImageCloseButton,
                 document.images, document.imageBtn >>
VideoState == << mapVideoElement, mapVideoCloseButton,
                 document.videos, document.videoBtn >>

\* C28: a step that plays or stops media of one kind (a command, a handler
\* or a click on a close control) leaves the elements, sources, visibility
\* and close controls of the other two kinds as they were.
C28_OtherKindsUnchanged ==
    [][ probe'.fn = "command" /\ probe'.op \in {"play", "stop"} =>
          /\ probe'.kind # "audio" => AudioState' = AudioState
          /\ probe'.kind # "image" => ImageState' = ImageState
          /\ probe'.kind # "video" => VideoState' = VideoState ]_vars

\* an image was just hidden while a sound plays and a video is shown with
\* its close control
C28_Witness ==
    /\ probe.fn = "command" /\ probe.op = "stop" /\ probe.kind = "image"
    /\ probe.before # {}
    /\ ActiveImages(Cur) = {}
    /\ ActiveVideos(Cur) # {}
    /\ document.videoBtn.display = "block"
    /\ \E el \in 1..Len(document.audios) : document.audios[el].playing


(***************************************************************************)
(* Loads that fail and loads that settle.                                  *)
(***************************************************************************)
LoadInputs == ShowInputs \cup PlayShowInputs

NextLoad ==
    \/ \E p \in 1..MaxCalls, i \in LoadInputs : ShowMap(p, i, TRUE)
    \/ \E p \in 1..MaxCalls : FetchResponds(p)
    \/ \E p \in 1..MaxCalls : FetchFails(p)
    \/ \E p \in 1..MaxCalls : BodyRead(p, TRUE)
    \/ \E p \in 1..MaxCalls : FetchTimeout(p)

SpecLoad == Init /\ [][NextLoad]_vars

\* the map showMap asks loadMapData for
TargetOf(W, input) ==
    LET normalizedInput == normalizeMapInput(input) IN
    IF truthy(normalizedInput)
    THEN resolveMapPath(W.extensionState.availableMaps, normalizedInput.s)
    ELSE W.extensionState.currentLoadedMap

\* two errors are the same error: the same kind with the same detail
SameError(e, f) ==
    /\ "kind" \in DOMAIN e /\ "kind" \in DOMAIN f
    /\ e.kind = f.kind
    /\ e.detail = f.detail

\* l is a failed loadMapData of this step: it recorded the error it throws
\* and left the cache alone, and the caller's catch received that error
\* (showMap shows its message and the state holds it after the step)
FailedWith(l, cacheBefore) ==
    /\ ~l.ok
    /\ SameError(l.W.extensionState.lastError, l.error)
    /\ l.W.mapCache = cacheBefore
    /\ SameError(extensionState'.lastError, l.error)
    /\ toastr' = [level |-> "error", msg |-> l.error.kind]
    /\ mapCache' = mapCache

\* the pending loadMapData of a call throws in this step in one of the ways
\* it can: on the timeout, on the network or the HTTP status while the
\* request is out, on the body or on validation once the response is in
ThrowsIn(W, call) ==
    \A file \in {ServerFile(call.targetMap.s)} :
    IF call.pc = "fetch"
    THEN \/ FailedWith(loadMapData_failed(W, Error("Timeout loading map", <<>>)),
                       W.mapCache)
         \/ FailedWith(loadMapData_failed(W, Error("Failed to fetch", <<>>)),
                       W.mapCache)
         \/ /\ file.status # 200
            /\ FailedWith(loadMapData_failed(W, Error("HTTP", file.status)),
                          W.mapCache)
    ELSE \/ FailedWith(loadMapData_failed(W, Error("JSON parse error", <<>>)),
                       W.mapCache)
         \/ FailedWith(loadMapData_body(W, call.targetMap.s, file), W.mapCache)

\* C29: a loadMapData that fails, whether on its path, on the timeout, on
\* the HTTP status, on the body or on validation, stores in lastError the
\* error it throws, its caller receives that error, and the cache is as it
\* was before the step.
C29_FailedLoadRecordsAndThrows ==
    [][ /\ \A p \in 1..MaxCalls :
              ( /\ calls[p].pc # "idle" /\ calls'[p].pc = "idle"
                /\ \/ probe'.op \in {"fail", "timeout"}
                   \/ probe'.op = "load" /\ ~probe'.allowed )
              => ThrowsIn(Cur, calls[p])
        /\ \A p \in 1..MaxCalls, i \in LoadInputs :
              \A t \in {TargetOf(Cur, i)} :
              ( /\ calls[p].pc = "idle" /\ calls' = calls
                /\ truthy(t)
                /\ ~cacheHas(mapCache, t.s)
                /\ ~validateAssetPath(t).ok
                /\ Cur' = showMap_begin(Cur, i, TRUE).W )
              => FailedWith(loadMapData_failed(makeMovable(Cur),
                                Error(validateAssetPath(t).error, <<>>)),
                            mapCache) ]_vars

\* a load has just failed on validation while a map is in the cache
C29_Witness ==
    /\ probe.fn = "command" /\ probe.op = "load" /\ ~probe.allowed
    /\ probe.input = Str(N_bad)
    /\ extensionState.lastError.kind = "Validation error"
    /\ Len(mapCache) > 0


\* the timer of fetchJsonWithTimeout is armed before the request goes out
\* and cleared only in the finally block, so while a load is pending
\* its timer is pending too and fires unless the load settles first; the
\* server owes nothing: no response and no end of the body is assumed
SpecLoadLive ==
    /\ Init /\ [][NextLoad]_vars
    /\ \A p \in 1..MaxCalls : WF_vars(FetchTimeout(p))

\* C30: every load that is pending, whether its request is out or its body
\* is being read, settles: its call returns to idle with a document or with
\* an error, even if the server never answers or never ends the body.
C30_EveryLoadSettles ==
    \A p \in 1..MaxCalls : (calls[p].pc # "idle") ~> (calls[p].pc = "idle")

\* a load whose response came in was ended by the timer while its body was
\* being read: its call is idle again, after an earlier load had succeeded
C30_Witness ==
    /\ probe.fn = "command" /\ probe.op = "timeout" /\ probe.kind = "body"
    /\ \E p \in 1..MaxCalls : calls[p].pc = "idle"
    /\ Len(mapCache) > 0


(***************************************************************************)
(* Discovery that settles.                                                 *)
(***************************************************************************)
\* the indexTimeout timer fires unless it was cleared first; the server
\* owes nothing
SpecDiscoverLive ==
    /\ Init /\ [][NextDiscover]_vars
    /\ WF_vars(IndexTimeout)

\* C31: a discovery that is pending, whether its request is out or the body
\* of the listing is being read, returns: the index fetch goes back to idle
\* even if the response or the end of the body never comes.
C31_DiscoverySettles ==
    (indexCall.pc # "idle") ~> (indexCall.pc = "idle")


(***************************************************************************)
(* showMap calls that overlap.                                             *)
(***************************************************************************)
\* history: when the probe is a request log, it holds the map the most
\* recent showMap asked for, and whether another showMap was suspended in
\* its load at that moment
NoRequest == [fn |-> "order", latest |-> Null, overlapped |-> FALSE]

\* showMap up to its first suspension, noted in the request log
RequestMap(p, input) ==
    /\ calls[p].pc = "idle"
    /\ \E r \in {showMap_begin(Cur, input, TRUE)} :
       /\ Len(r.W.document.audios) <= MaxElements
       /\ Becomes(r.W)
       /\ calls' = [calls EXCEPT ![p] = r.call]
    /\ probe' = [fn |-> "order", latest |-> TargetOf(Cur, input),
                 overlapped |-> \E q \in DOMAIN calls : calls[q].pc # "idle"]
    /\ UNCHANGED <<indexCall, fillRun>>

InitOverlap ==
    /\ mapCache = <<>>
    /\ extensionState = [currentLoadedMap |-> Null, availableMaps |-> Listing,
                         isMapLoaded |-> FALSE, lastError |-> Null,
                         currentMapElement |-> FALSE]
    /\ mapAudioElement = NoElement
    /\ mapImageElement = NoElement
    /\ mapImageCloseButton = NoElement
    /\ mapVideoElement = NoElement
    /\ mapVideoCloseButton = NoElement
    /\ document = EmptyDocument
    /\ toastr = NoToast
    /\ calls = [p \in 1..MaxOverlap |-> IdleCall]
    /\ indexCall = [pc |-> "idle"]
    /\ fillRun = NoRun
    /\ probe = NoRequest

\* two maps that render
OverlapInputs == {Str(<<"a">>), Str(<<"c">>)}

NextOverlap ==
    \/ \E p \in 1..MaxOverlap, i \in OverlapInputs : RequestMap(p, i)
    \/ \E p \in 1..MaxOverlap : FetchResponds(p)
    \/ \E p \in 1..MaxOverlap : BodyRead(p, TRUE)

SpecOverlap == InitOverlap /\ [][NextOverlap]_vars

AllSettled == \A p \in DOMAIN calls : calls[p].pc = "idle"


\* some entry of the cache is gone after the step
Evicts == \E i \in 1..Len(mapCache) : ~cacheHas(mapCache', mapCache[i].key)

\* C32: the cache never holds more than maxMapCache entries, and an entry
\* leaves it only in a step in which a load inserts a key the cache did not
\* hold while the cache was full; a load that settles on a key already in
\* the cache, as the second of two overlapping loads of one name does,
\* evicts nothing.
C32_EvictsOnlyForNewKey ==
    [][ /\ Len(mapCache') <= maxMapCache
        /\ Evicts =>
              \E p \in DOMAIN calls :
                 /\ calls[p].pc = "body" /\ calls'[p].pc = "idle"
                 /\ ~cacheHas(mapCache, calls[p].targetMap.s)
                 /\ Len(mapCache) = maxMapCache ]_vars


\* the document the server holds under the name in currentLoadedMap
CurrentDocument ==
    ServerFile(extensionState.currentLoadedMap.s).data

C34_LatestRequestWins ==
    (AllSettled /\ probe.fn = "order" /\ probe.overlapped) =>
        document.svg.data = ServerFile(probe.latest.s).data


(***************************************************************************)
(* The window closed while a load is pending.                              *)
(***************************************************************************)
NextClose ==
    \/ \E p \in 1..MaxCalls, i \in SoundShowInputs : ShowMap(p, i, TRUE)
    \/ \E p \in 1..MaxCalls : FetchResponds(p)
    \/ \E p \in 1..MaxCalls : BodyRead(p, TRUE)
    \/ \E el \in 1..MaxElements, error \in BOOLEAN : AudioEnds(el, error)
    \/ CloseWindow

SpecClose == Init /\ [][NextClose]_vars

\* no map is on the page: the window is gone, or its surface is empty
NothingRendered ==
    /\ ~extensionState.isMapLoaded
    /\ document.svg.zones = <<>>

\* C35: while the window is closed no map sound plays and nothing is
\* rendered: the close stops the sound, and a showMap whose load was pending
\* when the window was closed neither starts the sound of its document nor
\* renders it.
C35_ClosedWindowStaysSilent ==
    ~document.mapWindow =>
        /\ \A el \in 1..Len(document.audios) : ~document.audios[el].playing
        /\ NothingRendered


\* the log of a step in which a showMap call ended
ShowMapEnded ==
    /\ probe.fn = "command"
    /\ probe.op \in {"none", "load", "fail", "timeout"}
    /\ probe.returned = Str(<<>>)

\* the surface holds the document currentLoadedMap names, zone for shape
Rendered ==
    /\ extensionState.isMapLoaded
    /\ document.mapWindow
    /\ extensionState.currentLoadedMap.t = "string"
    /\ document.svg.data = CurrentDocument
    /\ Len(document.svg.zones) = Len(Get(CurrentDocument, "shapes").items)

\* C36: a showMap that ends with the notification 'Map ... loaded' has
\* rendered its document: isMapLoaded is set and the surface holds the
\* zones of that document; a showMap whose initMap failed ends without it.
C36_SuccessOnlyWhenRendered ==
    [][ (ShowMapEnded' /\ toastr' = [level |-> "success", msg |-> "Map loaded"])
            => Rendered' ]_vars


(***************************************************************************)
(* Play requests that are turned down.                                     *)
(***************************************************************************)
RejectSoundNames == {Str(<<"s">>), Str(<<".",".","/","s">>), Str(<<>>)}
RejectImageNames == {Str(<<"i">>), Str(<<".",".","/","i">>), Str(<<>>)}
RejectVideoNames == {Str(<<"v">>), Str(<<".",".","/","v">>), Str(<<>>)}

NextReject ==
    \/ \E n \in RejectSoundNames : PlayMapSound(n, TRUE)
    \/ \E n \in RejectImageNames, o \in ImageOpts : ShowMapImage(n, o)
    \/ \E n \in RejectVideoNames, o \in VideoOpts : PlayMapVideo(n, o, TRUE)
    \/ CloseWindow
    \/ \E p \in 1..MaxCalls, i \in PlayShowInputs : ShowMap(p, i, TRUE)

SpecReject == InitPlay /\ [][NextReject]_vars

\* the request is turned down before it starts: no name, a path that
\* validateAssetPath rejects, or (image, video) no map window
TurnedDown(kind, input, window) ==
    \/ ~truthy(input)
    \/ ~validateAssetPath(Str(MediaPath(kind, input))).ok
    \/ kind # "audio" /\ ~window

\* C37: a play request that is turned down before it starts leaves what
\* the page holds of its kind as it was: the same elements, the active one
\* with its source, visibility and playback, and the close control.
C37_RejectedPlayChangesNothing ==
    [][ ( /\ probe'.fn = "command" /\ probe'.op = "play"
          /\ TurnedDown(probe'.kind, probe'.input, probe'.window) )
        => /\ probe'.kind = "audio" => AudioState' = AudioState
           /\ probe'.kind = "image" => ImageState' = ImageState
           /\ probe'.kind = "video" => VideoState' = VideoState ]_vars

\* an image with a rejected path was just requested while another image
\* is shown: it is still shown
C37_Witness ==
    /\ probe.fn = "command" /\ probe.op = "play" /\ probe.kind = "image"
    /\ probe.input = Str(<<".",".","/","i">>)
    /\ probe.window
    /\ ActiveImages(Cur) # {}
    /\ document.imageBtn.display = "block"


(***************************************************************************)
(* What a failed showMap leaves behind.                                    *)
(***************************************************************************)
\* a pending load ends in this step by throwing
LoadThrows ==
    /\ \E p \in DOMAIN calls : calls[p].pc # "idle" /\ calls'[p].pc = "idle"
    /\ \/ probe'.op \in {"fail", "timeout"}
       \/ probe'.op = "load" /\ ~probe'.allowed

\* this step is showMap(i) ending at once because loadMapData rejects the
\* path of its target
PathThrows(i) ==
    \E t \in {TargetOf(Cur, i)} :
       /\ calls' = calls
       /\ truthy(t)
       /\ ~cacheHas(mapCache, t.s)
       /\ ~validateAssetPath(t).ok
       /\ Cur' = showMap_begin(Cur, i, TRUE).W

\* C38: a showMap whose load fails, on the path, the timeout, the HTTP
\* status, the body or validation, leaves currentLoadedMap, the cache and
\* the rendered surface with its zones, their handlers and isMapLoaded as
\* they were; of extensionState only lastError changes.
C38_FailedShowMapKeepsSurface ==
    [][ (LoadThrows \/ \E i \in LoadInputs : PathThrows(i))
        => /\ mapCache' = mapCache
           /\ document.svg' = document.svg
           /\ document.stale' = document.stale
           /\ extensionState' = [extensionState EXCEPT
                                    !.lastError = extensionState'.lastError] ]_vars

\* a load has just failed while map a is on the surface: it still is
C38_Witness ==
    /\ probe.fn = "command" /\ probe.op = "fail"
    /\ extensionState.isMapLoaded
    /\ extensionState.currentLoadedMap = Str(MapName(1))
    /\ Len(document.svg.zones) = 2
    /\ extensionState.lastError.kind = "HTTP"


(***************************************************************************)
(* A refresh while a load is pending.                                      *)
(***************************************************************************)
\* maps are requested only while no refresh is under way, so a load that
\* is pending during a refresh was requested before the refresh began
ShowMapOutsideRefresh(p, input) ==
    /\ indexCall.pc = "idle"
    /\ ShowMap(p, input, TRUE)

NextRefresh ==
    \/ Refresh
    \/ \E ok \in BOOLEAN : IndexResponds(ok)
    \/ IndexTimeout
    \/ \E index \in IndexBodies : IndexBodyRead(index)
    \/ \E p \in 1..MaxCalls, i \in DiscoverShowInputs : ShowMapOutsideRefresh(p, i)
    \/ \E p \in 1..MaxCalls : FetchResponds(p)
    \/ \E p \in 1..MaxCalls : BodyRead(p, TRUE)

SpecRefresh == Init /\ [][NextRefresh]_vars

\* C39: when a refresh completes, the cache it cleared at its start holds
\* no document of a load requested before the refresh: a load that was
\* pending when the cache was cleared has not put its document back.
C39_RefreshLeavesNoOldDocument ==
    [][ (indexCall.pc # "idle" /\ indexCall'.pc = "idle") => mapCache' = <<>> ]_vars

=============================================================================
